---- MODULE Spec2Model ----
(***************************************************************************)
(* Layout engine of the stable configurator                                *)
(* (src/components/configurator/StableConfigurator.tsx, src/lib/geometry.ts*)
(* and the module catalog and built-in templates).                         *)
(*                                                                         *)
(* Coordinates are JavaScript numbers in the source.  They are modelled as *)
(* exact rationals <<numerator, denominator>> in lowest terms, so that the *)
(* area-weighted centroid of rotateLayout is computed exactly.             *)
(* Unit ids come from Math.random in the source; here a new id is the      *)
(* first string of UidPool that the state does not reference anywhere.     *)
(***************************************************************************)
EXTENDS Integers, Sequences, FiniteSets, TLC

(***************************************************************************)
(* Bounds of the model                                                     *)
(***************************************************************************)
MaxUnits == 4

MaxLayoutRotations == 2

MaxOps == 3

\* rotateLayout calls in a row in the specification of repeated rotation
MaxTurns == 4

\* layout changes in the specification of the state setter calls
MaxBatchOps == 2

(***************************************************************************)
(* Exact rational arithmetic                                               *)
(***************************************************************************)
AbsInt(n) == IF n < 0 THEN -n ELSE n

RECURSIVE GCD(_, _)
GCD(a, b) == IF b = 0 THEN a ELSE GCD(b, a % b)

Norm(n, d) ==
  IF d = 1 THEN <<n, 1>>
  ELSE LET s == IF d < 0 THEN -1 ELSE 1
           g == GCD(AbsInt(n), AbsInt(d))
       IN  <<(s * n) \div g, (s * d) \div g>>

Q(n) == <<n, 1>>

RAdd(a, b) == IF a[2] = 1 /\ b[2] = 1 THEN <<a[1] + b[1], 1>>
              ELSE Norm(a[1] * b[2] + b[1] * a[2], a[2] * b[2])

RNeg(a) == <<-a[1], a[2]>>

RSub(a, b) == RAdd(a, RNeg(b))

RMul(a, b) == IF a[2] = 1 /\ b[2] = 1 THEN <<a[1] * b[1], 1>>
              ELSE Norm(a[1] * b[1], a[2] * b[2])

RDivInt(a, n) == Norm(a[1], a[2] * n)

RLt(a, b) == a[1] * b[2] < b[1] * a[2]

RLe(a, b) == a[1] * b[2] <= b[1] * a[2]

RAbs(a) == <<AbsInt(a[1]), a[2]>>

RMin(a, b) == IF RLt(b, a) THEN b ELSE a

RMax(a, b) == IF RLt(a, b) THEN b ELSE a

Range(s) == {s[i] : i \in 1..Len(s)}

\* const v = ...; Body
LetIn(v, Body(_)) == Body(v)

(***************************************************************************)
(* Module catalog (lib/modules)                                            *)
(***************************************************************************)
makeStraightConnectors(w, d) ==
  << [id |-> "W", x |-> 0, y |-> d \div 2, nx |-> -1, ny |-> 0],
     [id |-> "E", x |-> w, y |-> d \div 2, nx |-> 1,  ny |-> 0] >>

makeCornerStableConnectors(w, d) ==
  << [id |-> "S", x |-> 10, y |-> d,        nx |-> 0,  ny |-> 1],
     [id |-> "W", x |-> 0,  y |-> d \div 2, nx |-> -1, ny |-> 0] >>

makeRHCornerStableConnectors(w, d) ==
  << [id |-> "S", x |-> 6, y |-> d,        nx |-> 0, ny |-> 1],
     [id |-> "E", x |-> w, y |-> d \div 2, nx |-> 1, ny |-> 0] >>

AllRotations == <<0, 90, 180, 270>>

StableExtras(partitionPrice) ==
  << [id |-> "window", price |-> 250],
     [id |-> "partition", price |-> partitionPrice],
     [id |-> "feed_store", price |-> 300],
     [id |-> "hay_rack", price |-> 150],
     [id |-> "water_trough", price |-> 200] >>

CornerExtras ==
  << [id |-> "partition", price |-> 600],
     [id |-> "feed_store", price |-> 300],
     [id |-> "hay_rack", price |-> 150],
     [id |-> "water_trough", price |-> 200] >>

ShelterExtras ==
  << [id |-> "double_doors", price |-> 450],
     [id |-> "side_panels", price |-> 400],
     [id |-> "feed_trough", price |-> 180],
     [id |-> "water_point", price |-> 250] >>

TackRoomExtras ==
  << [id |-> "saddle_rack", price |-> 120],
     [id |-> "bridle_hooks", price |-> 80],
     [id |-> "shelving", price |-> 350],
     [id |-> "workbench", price |-> 450],
     [id |-> "window", price |-> 250],
     [id |-> "lighting", price |-> 200] >>

ModuleDef(id, kind, w, d, price, conns, extras) ==
  [id |-> id, kind |-> kind, widthFt |-> w, depthFt |-> d,
   rotations |-> AllRotations, basePrice |-> price,
   connectors |-> conns, extras |-> extras]

MODULES ==
  << ModuleDef("stable_6x12", "stable", 6, 12, 2800,
               makeStraightConnectors(6, 12), StableExtras(350)),
     ModuleDef("stable_8x12", "stable", 8, 12, 3200,
               makeStraightConnectors(8, 12), StableExtras(400)),
     ModuleDef("stable_10x12", "stable", 10, 12, 3600,
               makeStraightConnectors(10, 12), StableExtras(450)),
     ModuleDef("stable_12x12", "stable", 12, 12, 4000,
               makeStraightConnectors(12, 12), StableExtras(500)),
     ModuleDef("stable_14x12", "stable", 14, 12, 4400,
               makeStraightConnectors(14, 12), StableExtras(550)),
     ModuleDef("stable_16x12", "stable", 16, 12, 4800,
               makeStraightConnectors(16, 12), StableExtras(600)),
     ModuleDef("shelter_12x12", "shelter", 12, 12, 3600,
               makeStraightConnectors(12, 12), ShelterExtras),
     ModuleDef("corner_16x12", "corner", 16, 12, 5200,
               makeCornerStableConnectors(16, 12), CornerExtras),
     ModuleDef("corner_rh_16x12", "corner", 16, 12, 5200,
               makeRHCornerStableConnectors(16, 12), CornerExtras),
     ModuleDef("tack_room_12x12", "tack_room", 12, 12, 4200,
               makeStraightConnectors(12, 12), TackRoomExtras) >>

ModuleIds == {MODULES[i].id : i \in 1..Len(MODULES)}

KnownModule(id) == id \in ModuleIds

\* MODULES.find(m => m.id === id): the first catalog entry with the id
ModuleById ==
  [id \in ModuleIds |->
     MODULES[CHOOSE i \in 1..Len(MODULES) :
               /\ MODULES[i].id = id
               /\ \A j \in 1..(i - 1) : MODULES[j].id # id]]

\* getModule throws when there is no such entry; callers test KnownModule
getModule(id) == ModuleById[id]

\* m.connectors.find(c => c.id === id), as a sequence of zero or one element
FindConnector(m, id) ==
  LET idx == {i \in 1..Len(m.connectors) : m.connectors[i].id = id}
  IN  IF idx = {} THEN <<>>
      ELSE <<m.connectors[CHOOSE i \in idx : \A j \in idx : i <= j]>>

IsStandardKind(k) == k \in {"stable", "shelter", "tack_room"}

(***************************************************************************)
(* Geometry kernel (lib/geometry.ts)                                       *)
(***************************************************************************)
rotatedSize(w, d, rot) ==
  IF rot = 90 \/ rot = 270 THEN [w |-> d, d |-> w] ELSE [w |-> w, d |-> d]

\* mutation: the 90-degree case swaps the coordinates
rotatePointTransposed(x, y, w, d, rot) ==
  CASE rot = 0   -> [x |-> x, y |-> y]
    [] rot = 90  -> [x |-> y, y |-> x]
    [] rot = 180 -> [x |-> RSub(w, x), y |-> RSub(d, y)]
    [] rot = 270 -> [x |-> y, y |-> RSub(w, x)]

\* x, y, w, d are rationals
rotatePoint(x, y, w, d, rot) ==
  CASE rot = 0   -> [x |-> x, y |-> y]
    [] rot = 90  -> [x |-> RSub(d, y), y |-> x]
    [] rot = 180 -> [x |-> RSub(w, x), y |-> RSub(d, y)]
    [] rot = 270 -> [x |-> y, y |-> RSub(w, x)]

rotateVec(nx, ny, rot) ==
  CASE rot = 0   -> [nx |-> nx, ny |-> ny]
    [] rot = 90  -> [nx |-> -ny, ny |-> nx]
    [] rot = 180 -> [nx |-> -nx, ny |-> -ny]
    [] rot = 270 -> [nx |-> ny, ny |-> -nx]

\* mutation: boxes that touch count as overlapping
overlapsClosed(a, b) ==
  ~ ( \/ RLt(RAdd(a.x, a.w), b.x)
      \/ RLt(RAdd(b.x, b.w), a.x)
      \/ RLt(RAdd(a.y, a.d), b.y)
      \/ RLt(RAdd(b.y, b.d), a.y) )

\* boxes are records [x, y, w, d] of rationals
overlaps(a, b) ==
  ~ ( \/ RLe(RAdd(a.x, a.w), b.x)
      \/ RLe(RAdd(b.x, b.w), a.x)
      \/ RLe(RAdd(a.y, a.d), b.y)
      \/ RLe(RAdd(b.y, b.d), a.y) )

bbox(u, m) ==
  LET s == rotatedSize(m.widthFt, m.depthFt, u.rot)
  IN  [x |-> u.xFt, y |-> u.yFt, w |-> Q(s.w), d |-> Q(s.d)]

connectorWorld(u, m, c) ==
  LET p == rotatePoint(Q(c.x), Q(c.y), Q(m.widthFt), Q(m.depthFt), u.rot)
      v == rotateVec(c.nx, c.ny, u.rot)
  IN  [x |-> RAdd(u.xFt, p.x), y |-> RAdd(u.yFt, p.y), nx |-> v.nx, ny |-> v.ny]

IndexOf(s, e) ==
  IF \E i \in 1..Len(s) : s[i] = e
  THEN CHOOSE i \in 1..Len(s) : s[i] = e /\ \A j \in 1..(i - 1) : s[j] # e
  ELSE 0

\* mutation: the index advances by two
nextRotationSkipsOne(rots, r) == rots[((IndexOf(rots, r) + 1) % Len(rots)) + 1]

\* rots[(rots.indexOf(r) + 1) % rots.length], with 1-based sequences
nextRotation(rots, r) == rots[(IndexOf(rots, r) % Len(rots)) + 1]

getFrontFace(rot) ==
  CASE rot = 0   -> "S"
    [] rot = 90  -> "W"
    [] rot = 180 -> "N"
    [] rot = 270 -> "E"

(***************************************************************************)
(* Built-in templates (lib/data/layoutTemplates)                           *)
(***************************************************************************)
TUnit(uid, moduleId, x, y, rot) ==
  [uid |-> uid, moduleId |-> moduleId, xFt |-> Q(x), yFt |-> Q(y),
   rot |-> rot, selectedExtras |-> <<>>]

TConn(aUid, aConn, bUid, bConn) ==
  [aUid |-> aUid, aConn |-> aConn, bUid |-> bUid, bConn |-> bConn]

DEFAULT_TEMPLATES ==
  << [id |-> "single_stable",
      units |-> << TUnit("t0", "stable_12x12", 0, 0, 0) >>,
      connections |-> << >>],
     [id |-> "l_shaped_corner",
      units |-> << TUnit("corner1", "corner_lh_16x12", 0, 0, 0),
                   TUnit("stable1", "stable_12x12", 16, 0, 0),
                   TUnit("stable2", "stable_12x12", 0, 12, 0) >>,
      connections |-> << TConn("corner1", "W", "stable1", "W"),
                         TConn("corner1", "S", "stable2", "W") >>],
     [id |-> "straight_row",
      units |-> << TUnit("row1", "stable_12x12", 0, 0, 0),
                   TUnit("row2", "stable_12x12", 12, 0, 0),
                   TUnit("row3", "stable_12x12", 24, 0, 0) >>,
      connections |-> << TConn("row1", "E", "row2", "W"),
                         TConn("row2", "E", "row3", "W") >>],
     [id |-> "u_shaped",
      units |-> << TUnit("u1", "stable_12x12", 0, 0, 0),
                   TUnit("tack1", "tack_room_12x12", 12, 0, 0),
                   TUnit("u2", "stable_12x12", 24, 0, 0),
                   TUnit("u3", "stable_12x12", 12, 12, 180) >>,
      connections |-> << TConn("u1", "E", "tack1", "W"),
                         TConn("tack1", "E", "u2", "W"),
                         TConn("tack1", "S", "u3", "N") >>] >>

(***************************************************************************)
(* Inputs                                                                  *)
(***************************************************************************)
\* modules whose "+ Add" button the user presses
DragModules == {"stable_12x12", "corner_16x12"}

\* pointer positions on the work surface, in feet
Pointer == { [x |-> Q(6), y |-> Q(6)], [x |-> Q(8), y |-> Q(-7)],
             [x |-> Q(18), y |-> Q(7)], [x |-> Q(18), y |-> Q(8)] }

\* extras the user toggles
ToggleExtras == {"partition"}

\* templates the user picks in the template selector
TemplateIds == {DEFAULT_TEMPLATES[i].id : i \in 1..Len(DEFAULT_TEMPLATES)}

(***************************************************************************)
(* State                                                                   *)
(***************************************************************************)
VARIABLES
  units,            \* PlacedUnit[]
  connections,      \* Connection[]
  selectedUid,
  draggingModuleId, \* "" when null
  draggingUnitUid,  \* "" when null
  dragPosition,     \* <<>> when null, else <<[x, y]>>
  snappedConnector, \* <<>> when null, else <<[uid, connId]>>
  dragOffset,       \* <<>> when null, else <<[x, y]>>
  layoutRotation,
  crashed,          \* a render threw (getModule: Unknown module); the tree is unmounted
  last,             \* the last operation and its outcome
  nLayoutRotations, \* number of rotateLayout calls so far
  nOps,             \* number of committed layout changes so far
  probe,            \* the geometry kernel call under examination
  batch             \* state setter calls of the running handler: still to be
                    \* made (todo) and made but not yet rendered (queued)

vars == <<units, connections, selectedUid, draggingModuleId, draggingUnitUid,
          dragPosition, snappedConnector, dragOffset, layoutRotation, crashed,
          last, nLayoutRotations, nOps, probe, batch>>

\* what the event handlers of the whole-handler specifications leave alone
stepVars == <<probe, batch>>

\* no kernel call is under examination
NoProbe == [fn |-> "none"]

\* no handler is running and every state update has been rendered
NoBatch == [todo |-> << >>, queued |-> << >>]

dragVars == <<draggingModuleId, draggingUnitUid, dragPosition, snappedConnector,
              dragOffset>>

UnitIds(us) == {us[i].uid : i \in 1..Len(us)}

\* units.find(u => u.uid === uid), as a sequence of zero or one element
FindUnit(us, uid) ==
  LET idx == {i \in 1..Len(us) : us[i].uid = uid}
  IN  IF idx = {} THEN <<>>
      ELSE <<us[CHOOSE i \in idx : \A j \in idx : i <= j]>>

\* ids the state refers to; a new uid() differs from all of them
Referenced ==
  UnitIds(units)
    \cup {connections[i].aUid : i \in 1..Len(connections)}
    \cup {connections[i].bUid : i \in 1..Len(connections)}
    \cup {selectedUid, draggingUnitUid}
    \cup {snappedConnector[i].uid : i \in 1..Len(snappedConnector)}

\* the strings Math.random().toString(36).slice(2, 9) is taken to return
UidPool == <<"a1", "a2", "a3", "a4", "a5", "a6", "a7", "a8", "a9", "a10">>

RECURSIVE FreshFrom(_, _)
FreshFrom(n, k) ==
  IF UidPool[n] \in Referenced THEN FreshFrom(n + 1, k)
  ELSE IF k = 1 THEN UidPool[n] ELSE FreshFrom(n + 1, k - 1)

\* the k-th new id of a handler
uid(k) == FreshFrom(1, k)

(***************************************************************************)
(* Helpers of the component                                                *)
(***************************************************************************)
SNAP_DISTANCE == 2

isUsed(cs, u, conn) ==
  \E i \in 1..Len(cs) :
    \/ cs[i].aUid = u /\ cs[i].aConn = conn
    \/ cs[i].bUid = u /\ cs[i].bConn = conn

TempUnit(moduleId, x, y, rot) ==
  [uid |-> "temp", moduleId |-> moduleId, xFt |-> x, yFt |-> y, rot |-> rot,
   selectedExtras |-> <<>>]

\* squared distance between two points
Dist2(ax, ay, bx, by) ==
  LetIn(RSub(ax, bx), LAMBDA dx :
  LetIn(RSub(ay, by), LAMBDA dy :
    RAdd(RMul(dx, dx), RMul(dy, dy))))

\* the unused connectors of the units other than excludeUid, with their world
\* positions
SnapTargets(us, cs, excludeUid) ==
  UNION { LetIn(getModule(us[b].moduleId), LAMBDA m :
            { [b |-> b, c |-> c, uid |-> us[b].uid, connId |-> m.connectors[c].id,
               w |-> connectorWorld(us[b], m, m.connectors[c])] :
              c \in { k \in 1..Len(m.connectors) :
                        ~ isUsed(cs, us[b].uid, m.connectors[k].id) } }) :
          b \in { i \in 1..Len(us) :
                    ~ (excludeUid # "" /\ us[i].uid = excludeUid) } }

\* every (dragged connector, target) pair with its squared distance
SnapPairs(temp, draggedMod, targets) ==
  UNION { LetIn(connectorWorld(temp, draggedMod, draggedMod.connectors[a]),
                LAMBDA dw :
                  { [key |-> <<a, t.b, t.c>>, uid |-> t.uid, connId |-> t.connId,
                     d2 |-> Dist2(t.w.x, t.w.y, dw.x, dw.y)] : t \in targets }) :
          a \in 1..Len(draggedMod.connectors) }

\* loop order of two (dragged connector, unit, connector) keys
KeyBefore(s, t) ==
  \/ s[1] < t[1]
  \/ s[1] = t[1] /\ s[2] < t[2]
  \/ s[1] = t[1] /\ s[2] = t[2] /\ s[3] <= t[3]

\* the pair the loops end with: the first of the strictly nearest
NearestOf(near) ==
  IF near = {} THEN <<>>
  ELSE LetIn(CHOOSE t \in near :
               \A o \in near : \/ RLt(t.d2, o.d2)
                               \/ t.d2 = o.d2 /\ KeyBefore(t.key, o.key),
             LAMBDA best : <<[uid |-> best.uid, connId |-> best.connId]>>)

\* The nearest unused connector of another unit within SNAP_DISTANCE of a
\* connector of the dragged module; the loops run over (dragged connector,
\* unit, connector) and a later pair replaces the nearest only when strictly
\* nearer.  <<>> when there is none, else <<[uid, connId]>>.
findNearestConnector(us, cs, moduleId, x, y, rot, excludeUid) ==
  NearestOf({ q \in SnapPairs(TempUnit(moduleId, x, y, rot), getModule(moduleId),
                              SnapTargets(us, cs, excludeUid)) :
                RLt(q.d2, Q(SNAP_DISTANCE * SNAP_DISTANCE)) })

canConnect(sourceConn, sourceKind, targetConn, targetKind) ==
  IF IsStandardKind(sourceKind) /\ IsStandardKind(targetKind)
  THEN \/ sourceConn = "LEFT" /\ targetConn = "RIGHT"
       \/ sourceConn = "RIGHT" /\ targetConn = "LEFT"
  ELSE \/ /\ sourceKind = "corner"
          /\ IsStandardKind(targetKind)
          /\ \/ sourceConn = "DOOR_SIDE_LEFT" /\ targetConn = "LEFT"
             \/ sourceConn = "DOOR_SIDE_RIGHT" /\ targetConn = "RIGHT"
             \/ sourceConn = "BACK" /\ targetConn \in {"LEFT", "RIGHT"}
       \/ /\ IsStandardKind(sourceKind)
          /\ targetKind = "corner"
          /\ \/ sourceConn = "LEFT" /\ targetConn = "DOOR_SIDE_LEFT"
             \/ sourceConn = "RIGHT" /\ targetConn = "DOOR_SIDE_RIGHT"
             \/ sourceConn \in {"LEFT", "RIGHT"} /\ targetConn = "BACK"

\* <<>> for null, else <<targetFrontFace>>
shouldFaceInward(standardUnit, standardMod, cornerUnit, cornerMod, standardConn) ==
  IF standardMod.kind = "corner" \/ cornerMod.kind # "corner" THEN <<>>
  ELSE LetIn(connectorWorld(standardUnit, standardMod,
                            FindConnector(standardMod, standardConn)[1]), LAMBDA w :
       LetIn(RAdd(cornerUnit.xFt, RDivInt(Q(cornerMod.widthFt), 2)), LAMBDA cx :
       LetIn(RAdd(cornerUnit.yFt, RDivInt(Q(cornerMod.depthFt), 2)), LAMBDA cy :
       LetIn(RSub(cx, w.x), LAMBDA dx :
       LetIn(RSub(cy, w.y), LAMBDA dy :
         IF RLt(RAbs(dy), RAbs(dx))
         THEN <<IF RLt(Q(0), dx) THEN "E" ELSE "W">>
         ELSE <<IF RLt(Q(0), dy) THEN "S" ELSE "N">>)))))

\* mutation: the overlap loop never rejects
isValidPositionAnywhere(us, moduleId, x, y, rot, excludeUid) == TRUE

isValidPosition(us, moduleId, x, y, rot, excludeUid) ==
  LetIn(bbox(TempUnit(moduleId, x, y, rot), getModule(moduleId)), LAMBDA bNew :
    \A i \in 1..Len(us) :
      \/ excludeUid # "" /\ us[i].uid = excludeUid
      \/ ~ overlaps(bNew, bbox(us[i], getModule(us[i].moduleId))))

(***************************************************************************)
(* Candidate search of attach, connectExistingUnit and the drag preview.   *)
(* Scores are the source's scores times 10 (the source uses 0.7 and 0.2).  *)
(***************************************************************************)
\* One (rotation, connector) pair of the incoming module against the target
\* connector tc at world position aW: <<>> when the pair is skipped, else
\* <<[rot, conn, x, y, score]>>.
Candidate(inMod, rot, c, targetUnit, targetMod, tcId, aW) ==
  IF ~ canConnect(c.id, inMod.kind, tcId, targetMod.kind) THEN <<>>
  ELSE
    LetIn(rotatePoint(Q(c.x), Q(c.y), Q(inMod.widthFt), Q(inMod.depthFt), rot),
          LAMBDA p :
    LetIn(rotateVec(c.nx, c.ny, rot), LAMBDA v :
    LetIn(RSub(aW.x, p.x), LAMBDA x :
    LetIn(RSub(aW.y, p.y), LAMBDA y :
    LetIn(v.nx * aW.nx + v.ny * aW.ny, LAMBDA dot :
    LetIn(IsStandardKind(inMod.kind) /\ IsStandardKind(targetMod.kind), LAMBDA std :
    LetIn(IF IsStandardKind(inMod.kind) /\ targetMod.kind = "corner"
          THEN shouldFaceInward(TempUnit(inMod.id, x, y, rot), inMod,
                                targetUnit, targetMod, c.id)
          ELSE <<>>, LAMBDA inward :
      LET doorSide == \/ c.id \in {"DOOR_SIDE_LEFT", "DOOR_SIDE_RIGHT"}
                      \/ tcId \in {"DOOR_SIDE_LEFT", "DOOR_SIDE_RIGHT"}
          back == c.id = "BACK" \/ tcId = "BACK"
          corner == inMod.kind = "corner" \/ targetMod.kind = "corner"
          skip == \/ std /\ 10 * dot >= -7
                  \/ ~std /\ corner /\ doorSide /\ 10 * dot < 7
                  \/ ~std /\ corner /\ ~doorSide /\ back /\ 10 * dot >= -7
          score == IF std THEN -10 * dot
                   ELSE IF corner /\ doorSide THEN 10 - 10 * dot
                   ELSE IF corner /\ back THEN -10 * dot
                   ELSE 10 * AbsInt(dot)
          frontFaceBonus == IF inward # <<>> /\ getFrontFace(rot) = inward[1]
                            THEN 2 ELSE 0
      IN  IF skip THEN <<>>
          ELSE <<[rot |-> rot, conn |-> c.id, x |-> x, y |-> y,
                  score |-> score - frontFaceBonus]>>)))))))

\* first element, in the order of key, with the least score
FirstBest(cands) ==
  IF cands = {} THEN <<>>
  ELSE <<CHOOSE b \in cands :
           \A o \in cands : b.score < o.score \/ (b.score = o.score /\ b.key <= o.key)>>

\* The search of attach: every unused connector of the target unit, every
\* rotation and connector of the new module.  <<>> or <<best>>, where best also
\* names the target connector.
AttachSearch(us, cs, sourceUnit, newMod) ==
  LetIn(getModule(sourceUnit.moduleId), LAMBDA aMod :
    LET nR   == Len(newMod.rotations)
        nC   == Len(newMod.connectors)
        free == { t \in 1..Len(aMod.connectors) :
                    ~ isUsed(cs, sourceUnit.uid, aMod.connectors[t].id) }
        tried ==
          UNION { { [targetConn |-> aMod.connectors[t].id,
                     key |-> ((t - 1) * nR + (i[1] - 1)) * nC + i[2],
                     c |-> Candidate(newMod, newMod.rotations[i[1]],
                                     newMod.connectors[i[2]], sourceUnit, aMod,
                                     aMod.connectors[t].id,
                                     connectorWorld(sourceUnit, aMod,
                                                    aMod.connectors[t]))] :
                    i \in (1..nR) \X (1..nC) } :
                  t \in free }
        cands == { [rot |-> e.c[1].rot, conn |-> e.c[1].conn, x |-> e.c[1].x,
                    y |-> e.c[1].y, score |-> e.c[1].score,
                    targetConn |-> e.targetConn, key |-> e.key] :
                   e \in { f \in tried : f.c # <<>> } }
    IN  FirstBest(cands))

(***************************************************************************)
(* Operations.  Each returns the outcome and the layout it commits:        *)
(* [status, units, connections, selectedUid].                              *)
(***************************************************************************)
Res(status, us, cs, sel) ==
  [status |-> status, units |-> us, connections |-> cs, selectedUid |-> sel]

Unchanged(status) == Res(status, units, connections, selectedUid)

\* tolerance of the overlap test of attach
TOLERANCE == <<1, 2>>

\* overlapX > tolerance && overlapY > tolerance
OverlapBeyond(a, b, tol) ==
  LET overlapX == RSub(RMin(RAdd(a.x, a.w), RAdd(b.x, b.w)), RMax(a.x, b.x))
      overlapY == RSub(RMin(RAdd(a.y, a.d), RAdd(b.y, b.d)), RMax(a.y, b.y))
  IN  RLt(tol, overlapX) /\ RLt(tol, overlapY)

NewUnit(id, moduleId, x, y, rot) ==
  [uid |-> id, moduleId |-> moduleId, xFt |-> x, yFt |-> y, rot |-> rot,
   selectedExtras |-> <<>>]

\* attach(moduleId, targetConn, targetUnit): sourceUnit is <<>> or <<unit>>;
\* the targetConn argument is not read by the function body
attach(moduleId, sourceUnit) ==
  IF sourceUnit = <<>> THEN Unchanged("none")
  ELSE
    LetIn(getModule(moduleId), LAMBDA newMod :
    LetIn(AttachSearch(units, connections, sourceUnit[1], newMod), LAMBDA found :
      IF found = <<>> THEN Unchanged("none")
      ELSE
        LetIn(NewUnit(uid(1), moduleId, found[1].x, found[1].y, found[1].rot),
              LAMBDA newUnit :
          IF \E i \in 1..Len(units) :
               OverlapBeyond(bbox(newUnit, newMod),
                             bbox(units[i], getModule(units[i].moduleId)),
                             TOLERANCE)
          THEN Unchanged("Overlap")
          ELSE Res("ok",
                   Append(units, newUnit),
                   Append(connections,
                          [aUid |-> sourceUnit[1].uid, aConn |-> found[1].targetConn,
                           bUid |-> newUnit.uid, bConn |-> found[1].conn]),
                   newUnit.uid))))

placeModuleFree(moduleId, x, y) ==
  LetIn(getModule(moduleId), LAMBDA m :
  LetIn(RSub(x, RDivInt(Q(m.widthFt), 2)), LAMBDA centeredX :
  LetIn(RSub(y, RDivInt(Q(m.depthFt), 2)), LAMBDA centeredY :
    IF ~ isValidPosition(units, moduleId, centeredX, centeredY, 0, "")
    THEN Unchanged("invalid")
    ELSE LetIn(NewUnit(uid(1), moduleId, centeredX, centeredY, 0), LAMBDA newUnit :
           Res("ok", Append(units, newUnit), connections, newUnit.uid)))))

\* mutation: only the first endpoint is compared
WithoutUnitFirstEndOnly(cs, u) ==
  SelectSeq(cs, LAMBDA c : c.aUid # u)

WithoutUnit(cs, u) ==
  SelectSeq(cs, LAMBDA c : c.aUid # u /\ c.bUid # u)

ReplaceUnit(us, u, new) ==
  [i \in 1..Len(us) |-> IF us[i].uid = u THEN new ELSE us[i]]

\* The used-connector test of connectExistingUnit: connector connId of the
\* moving unit is skipped when it is used and the first connection that uses it
\* joins the moving unit to a unit other than the target.
connectorBlocked(cs, unitUid, connId, targetUnitUid) ==
  /\ isUsed(cs, unitUid, connId)
  /\ LET idx == {i \in 1..Len(cs) :
                   \/ cs[i].aUid = unitUid /\ cs[i].aConn = connId
                   \/ cs[i].bUid = unitUid /\ cs[i].bConn = connId}
         e   == cs[CHOOSE i \in idx : \A j \in idx : i <= j]
     IN  e.aUid # targetUnitUid /\ e.bUid # targetUnitUid

\* The search of connectExistingUnit: one target connector, every rotation and
\* connector of the moving unit, skipping a connector of the moving unit that
\* is joined to a unit other than the target.
ConnectSearch(us, cs, unitUid, unitMod, targetUnit, targetMod, targetConn, aW) ==
  LET nC == Len(unitMod.connectors)
      blocked(k) ==
        connectorBlocked(cs, unitUid, unitMod.connectors[k].id, targetUnit.uid)
      tried == { [key |-> (i[1] - 1) * nC + i[2],
                  c |-> Candidate(unitMod, unitMod.rotations[i[1]],
                                  unitMod.connectors[i[2]], targetUnit, targetMod,
                                  targetConn, aW)] :
                 i \in { j \in (1..Len(unitMod.rotations)) \X (1..nC) :
                           ~ blocked(j[2]) } }
      cands == { [rot |-> e.c[1].rot, conn |-> e.c[1].conn, x |-> e.c[1].x,
                  y |-> e.c[1].y, score |-> e.c[1].score, key |-> e.key] :
                 e \in { f \in tried : f.c # <<>> } }
  IN  FirstBest(cands)

connectExistingUnit(unitUid, targetConn, targetUnitUid) ==
  LetIn(FindUnit(units, unitUid), LAMBDA unit :
  LetIn(FindUnit(units, targetUnitUid), LAMBDA targetUnit :
    IF unit = <<>> \/ targetUnit = <<>> THEN Unchanged("none")
    ELSE
      LetIn(getModule(targetUnit[1].moduleId), LAMBDA targetMod :
      LetIn(FindConnector(targetMod, targetConn), LAMBDA targetConnDef :
        IF targetConnDef = <<>> THEN Unchanged("none")
        ELSE IF isUsed(connections, targetUnit[1].uid, targetConn)
        THEN Unchanged("used")
        ELSE
          LetIn(ConnectSearch(units, connections, unitUid,
                              getModule(unit[1].moduleId), targetUnit[1], targetMod,
                              targetConn,
                              connectorWorld(targetUnit[1], targetMod,
                                             targetConnDef[1])), LAMBDA found :
            IF found = <<>> THEN Unchanged("none")
            ELSE IF ~ isValidPosition(units, unit[1].moduleId, found[1].x,
                                      found[1].y, found[1].rot, unitUid)
            THEN Unchanged("invalid")
            ELSE Res("ok",
                     ReplaceUnit(units, unitUid,
                                 [unit[1] EXCEPT !.xFt = found[1].x,
                                                 !.yFt = found[1].y,
                                                 !.rot = found[1].rot]),
                     Append(WithoutUnit(connections, unitUid),
                            [aUid |-> targetUnit[1].uid, aConn |-> targetConn,
                             bUid |-> unitUid, bConn |-> found[1].conn]),
                     unitUid))))))

\* mutation: a unit moved to free space keeps its connections
moveFreeKeepsConnections(unitUid, newX, newY) ==
  LetIn(FindUnit(units, unitUid), LAMBDA unit :
    IF unit = <<>> THEN Unchanged("none")
    ELSE IF ~ isValidPosition(units, unit[1].moduleId, newX, newY, unit[1].rot,
                              unitUid)
    THEN Unchanged("invalid")
    ELSE Res("ok",
             ReplaceUnit(units, unitUid,
                         [unit[1] EXCEPT !.xFt = newX, !.yFt = newY]),
             connections,
             selectedUid))

\* the free-space branch of the pointer-up handlers
moveFree(unitUid, newX, newY) ==
  LetIn(FindUnit(units, unitUid), LAMBDA unit :
    IF unit = <<>> THEN Unchanged("none")
    ELSE IF ~ isValidPosition(units, unit[1].moduleId, newX, newY, unit[1].rot,
                              unitUid)
    THEN Unchanged("invalid")
    ELSE Res("ok",
             ReplaceUnit(units, unitUid,
                         [unit[1] EXCEPT !.xFt = newX, !.yFt = newY]),
             WithoutUnit(connections, unitUid),
             selectedUid))

ConnectionsOf(cs, u) ==
  SelectSeq(cs, LAMBDA c : c.aUid = u \/ c.bUid = u)

\* some other unit's box intersects the box of u
OverlapsOther(u, m) ==
  \E i \in 1..Len(units) :
    /\ units[i].uid # u.uid
    /\ overlaps(bbox(u, m), bbox(units[i], getModule(units[i].moduleId)))

\* rotateSelected, zero connections: rotate in place
rotateInPlace(selected, m, next) ==
  LetIn([selected EXCEPT !.rot = next], LAMBDA u2 :
    IF OverlapsOther(u2, m) THEN Unchanged("Overlap")
    ELSE Res("ok", ReplaceUnit(units, u2.uid, u2), connections, selectedUid))

\* rotateSelected, one connection conn: keep the connector on the other
\* endpoint's connector
rotateAboutConnector(selected, m, next, conn, resolve) ==
  LetIn(conn.aUid = selected.uid, LAMBDA mine :
  LetIn(FindUnit(units, IF mine THEN conn.bUid ELSE conn.aUid), LAMBDA other :
    IF other = <<>> THEN Unchanged("TypeError")
    ELSE
      LetIn(getModule(other[1].moduleId), LAMBDA otherMod :
      LetIn(FindConnector(m, IF mine THEN conn.aConn ELSE conn.bConn),
            LAMBDA myDef :
      LetIn(FindConnector(otherMod, IF mine THEN conn.bConn ELSE conn.aConn),
            LAMBDA otherDef :
        IF myDef = <<>> \/ otherDef = <<>> THEN Unchanged("TypeError")
        ELSE
          LetIn(connectorWorld(other[1], otherMod, otherDef[1]), LAMBDA otherW :
          LetIn(rotatePoint(Q(myDef[1].x), Q(myDef[1].y),
                            Q(m.widthFt), Q(m.depthFt),
                            IF resolve THEN next ELSE selected.rot),
                LAMBDA myLocal :
          LetIn([selected EXCEPT !.rot = next,
                                 !.xFt = RSub(otherW.x, myLocal.x),
                                 !.yFt = RSub(otherW.y, myLocal.y)],
                LAMBDA snapped :
            IF OverlapsOther(snapped, m) THEN Unchanged("Overlap")
            ELSE Res("ok", ReplaceUnit(units, snapped.uid, snapped),
                     connections, selectedUid)))))))))

\* rotateSelected, with the connection count above which rotation is locked
\* and whether the single-connection branch solves the origin for the next
\* rotation
rotateSelectedCore(lockAbove, resolve) ==
  LetIn(FindUnit(units, selectedUid), LAMBDA sel :
    IF sel = <<>> THEN Unchanged("none")
    ELSE
      LetIn(getModule(sel[1].moduleId), LAMBDA m :
      LetIn(ConnectionsOf(connections, sel[1].uid), LAMBDA myCons :
      LetIn(nextRotation(m.rotations, sel[1].rot), LAMBDA next :
        IF Len(myCons) > lockAbove THEN Unchanged("RotationLocked")
        ELSE IF Len(myCons) = 0 THEN rotateInPlace(sel[1], m, next)
        ELSE rotateAboutConnector(sel[1], m, next, myCons[1], resolve)))))

\* mutation: rotation is locked only above two connections
rotateSelectedLocksAboveTwo == rotateSelectedCore(2, TRUE)

\* mutation: the single-connection branch keeps the origin of the current rotation
rotateSelectedKeepsOrigin == rotateSelectedCore(1, FALSE)

rotateSelected == rotateSelectedCore(1, TRUE)

\* deleteUnit, with whether the last-unit alert returns and whether the
\* connections are filtered by the deleted unit
deleteUnitCore(u, returns, filters) ==
  IF Len(units) = 1 /\ returns THEN Unchanged("LastUnit")
  ELSE LetIn(SelectSeq(units, LAMBDA x : x.uid # u), LAMBDA remaining :
         Res(IF Len(units) = 1 THEN "LastUnit" ELSE "ok",
             remaining,
             IF filters THEN WithoutUnit(connections, u) ELSE <<>>,
             IF selectedUid = u /\ remaining # <<>>
             THEN remaining[1].uid ELSE selectedUid))

\* mutation: the last-unit alert does not return
deleteUnitNoReturn(u) == deleteUnitCore(u, FALSE, TRUE)

\* mutation: every connection is dropped
deleteUnitDropsConnections(u) == deleteUnitCore(u, TRUE, FALSE)

deleteUnit(u) == deleteUnitCore(u, TRUE, TRUE)

toggleExtra(extraId) ==
  LetIn(FindUnit(units, selectedUid), LAMBDA sel :
    IF sel = <<>> THEN units
    ELSE LetIn(sel[1].selectedExtras, LAMBDA cur :
         LetIn(IF \E i \in 1..Len(cur) : cur[i] = extraId
               THEN SelectSeq(cur, LAMBDA e : e # extraId)
               ELSE Append(cur, extraId), LAMBDA new :
           [i \in 1..Len(units) |->
              IF units[i].uid = selectedUid
              THEN [units[i] EXCEPT !.selectedExtras = new] ELSE units[i]])))

\* pricing?.[table]?.[id] !== undefined; pricing is <<>> when the store has
\* no saved pricing, else <<[modules, extras]>>, two maps from ids to prices
HasOverride(pricing, table, id) ==
  pricing # << >> /\ id \in DOMAIN pricing[1][table]

modulePrice(m, pricing) ==
  IF HasOverride(pricing, "modules", m.id) THEN pricing[1].modules[m.id]
  ELSE m.basePrice

\* mutation: the saved price of an extra is not consulted
extraPriceOfCatalog(m, extraId, pricing) ==
  IF \E i \in 1..Len(m.extras) : m.extras[i].id = extraId
  THEN m.extras[CHOOSE i \in 1..Len(m.extras) :
                  /\ m.extras[i].id = extraId
                  /\ \A j \in 1..(i - 1) : m.extras[j].id # extraId].price
  ELSE 0

\* what one selected extra adds; nothing when the module has no such extra
extraPrice(m, extraId, pricing) ==
  IF HasOverride(pricing, "extras", extraId) THEN pricing[1].extras[extraId]
  ELSE IF \E i \in 1..Len(m.extras) : m.extras[i].id = extraId
  THEN m.extras[CHOOSE i \in 1..Len(m.extras) :
                  /\ m.extras[i].id = extraId
                  /\ \A j \in 1..(i - 1) : m.extras[j].id # extraId].price
  ELSE 0

\* the inner loop of totalCost over the first n selected extras of a unit
RECURSIVE extrasCost(_, _, _, _)
extrasCost(m, ids, n, pricing) ==
  IF n = 0 THEN 0
  ELSE extrasCost(m, ids, n - 1, pricing) + extraPrice(m, ids[n], pricing)

\* the outer loop of totalCost over the first n units
RECURSIVE costOfUnits(_, _, _)
costOfUnits(us, n, pricing) ==
  IF n = 0 THEN 0
  ELSE costOfUnits(us, n - 1, pricing)
         + modulePrice(getModule(us[n].moduleId), pricing)
         + extrasCost(getModule(us[n].moduleId), us[n].selectedExtras,
                      Len(us[n].selectedExtras), pricing)

totalCost(us, pricing) == costOfUnits(us, Len(us), pricing)

\* centre of a box
boxCenter(b) ==
  [x |-> RAdd(b.x, RDivInt(b.w, 2)), y |-> RAdd(b.y, RDivInt(b.d, 2))]

\* the sums of the centre loop of rotateLayout over the first n units
RECURSIVE centerSums(_, _)
centerSums(us, n) ==
  IF n = 0 THEN [x |-> Q(0), y |-> Q(0), w |-> Q(0)]
  ELSE LetIn(centerSums(us, n - 1), LAMBDA acc :
       LetIn(boxCenter(bbox(us[n], getModule(us[n].moduleId))), LAMBDA c :
       LetIn(RMul(bbox(us[n], getModule(us[n].moduleId)).w,
                  bbox(us[n], getModule(us[n].moduleId)).d), LAMBDA weight :
         [x |-> RAdd(acc.x, RMul(c.x, weight)),
          y |-> RAdd(acc.y, RMul(c.y, weight)),
          w |-> RAdd(acc.w, weight)])))

\* mutation: the layout turns about the corner of its first unit
layoutCenterFirstCorner(us) == [x |-> us[1].xFt, y |-> us[1].yFt]

\* centerX /= totalWeight; centerY /= totalWeight
layoutCenter(us) ==
  LetIn(centerSums(us, Len(us)), LAMBDA tot :
    [x |-> Norm(tot.x[1] * tot.w[2], tot.x[2] * tot.w[1]),
     y |-> Norm(tot.y[1] * tot.w[2], tot.y[2] * tot.w[1])])

\* mutation: the new rotation is not reduced modulo 360
rotateUnitAboutNoWrap(u, center) ==
  LetIn(getModule(u.moduleId), LAMBDA m :
  LetIn(boxCenter(bbox(u, m)), LAMBDA uc :
  LetIn(RSub(uc.x, center.x), LAMBDA dx :
  LetIn(RSub(uc.y, center.y), LAMBDA dy :
  LetIn(u.rot + 90, LAMBDA newUnitRot :
  LetIn(rotatedSize(m.widthFt, m.depthFt, newUnitRot), LAMBDA s :
    [u EXCEPT !.xFt = RSub(RSub(center.x, dy), RDivInt(Q(s.w), 2)),
              !.yFt = RSub(RAdd(center.y, dx), RDivInt(Q(s.d), 2)),
              !.rot = newUnitRot]))))))

\* mutation: the centres turn the other way round
rotateUnitAboutCounter(u, center) ==
  LetIn(getModule(u.moduleId), LAMBDA m :
  LetIn(boxCenter(bbox(u, m)), LAMBDA uc :
  LetIn(RSub(uc.x, center.x), LAMBDA dx :
  LetIn(RSub(uc.y, center.y), LAMBDA dy :
  LetIn((u.rot + 90) % 360, LAMBDA newUnitRot :
  LetIn(rotatedSize(m.widthFt, m.depthFt, newUnitRot), LAMBDA s :
    [u EXCEPT !.xFt = RSub(RAdd(center.x, dy), RDivInt(Q(s.w), 2)),
              !.yFt = RSub(RSub(center.y, dx), RDivInt(Q(s.d), 2)),
              !.rot = newUnitRot]))))))

\* one unit of rotatedUnits: cos(90 deg) = 0 and sin(90 deg) = 1 exactly
rotateUnitAbout(u, center) ==
  LetIn(getModule(u.moduleId), LAMBDA m :
  LetIn(boxCenter(bbox(u, m)), LAMBDA uc :
  LetIn(RSub(uc.x, center.x), LAMBDA dx :
  LetIn(RSub(uc.y, center.y), LAMBDA dy :
  LetIn((u.rot + 90) % 360, LAMBDA newUnitRot :
  LetIn(rotatedSize(m.widthFt, m.depthFt, newUnitRot), LAMBDA s :
    [u EXCEPT !.xFt = RSub(RSub(center.x, dy), RDivInt(Q(s.w), 2)),
              !.yFt = RSub(RAdd(center.y, dx), RDivInt(Q(s.d), 2)),
              !.rot = newUnitRot]))))))

\* rotateLayout: cos(90 deg) = 0 and sin(90 deg) = 1 exactly
rotateLayoutUnits(us) ==
  LetIn(layoutCenter(us), LAMBDA center :
    [i \in 1..Len(us) |-> rotateUnitAbout(us[i], center)])

\* getTemplate(id) of the built-in templates, then the id remapping of
\* loadTemplate; perUnit: uid() is called once for every unit
loadTemplateCore(templateId, perUnit) ==
  LetIn(DEFAULT_TEMPLATES[CHOOSE i \in 1..Len(DEFAULT_TEMPLATES) :
                            DEFAULT_TEMPLATES[i].id = templateId], LAMBDA t :
  LetIn([i \in 1..Len(t.units) |->
           [t.units[i] EXCEPT !.uid = uid(IF perUnit THEN i ELSE 1)]],
        LAMBDA newUnits :
    LET \* uidMap.get(old) || old; a later unit with the same old id wins
        map(old) ==
          IF \E i \in 1..Len(t.units) : t.units[i].uid = old
          THEN newUnits[CHOOSE i \in 1..Len(t.units) :
                          /\ t.units[i].uid = old
                          /\ \A j \in (i + 1)..Len(t.units) : t.units[j].uid # old].uid
          ELSE old
    IN  Res("ok", newUnits,
            [i \in 1..Len(t.connections) |->
               [aUid |-> map(t.connections[i].aUid),
                aConn |-> t.connections[i].aConn,
                bUid |-> map(t.connections[i].bUid),
                bConn |-> t.connections[i].bConn]],
            IF Len(newUnits) > 0 THEN newUnits[1].uid ELSE selectedUid)))

\* mutation: one uid() for the whole template
loadTemplateLayoutOneUid(templateId) == loadTemplateCore(templateId, FALSE)

loadTemplateLayout(templateId) == loadTemplateCore(templateId, TRUE)

\* the design list the configurator reads from the browser store; the design
\* manager's "New Design" creates a design with no units and no connections,
\* and its form edits only the name and the description
PreBuiltDesigns ==
  << [id |-> "design_1", units |-> << >>, connections |-> << >>] >>

DesignIds == {PreBuiltDesigns[i].id : i \in 1..Len(PreBuiltDesigns)}

\* loadDesign: fresh ids for the design's units, its connections remapped;
\* the selection moves only when the design has a unit
loadDesignLayout(designId) ==
  LetIn(PreBuiltDesigns[CHOOSE i \in 1..Len(PreBuiltDesigns) :
                          PreBuiltDesigns[i].id = designId], LAMBDA design :
  LetIn([i \in 1..Len(design.units) |->
           [design.units[i] EXCEPT !.uid = uid(i)]], LAMBDA newUnits :
    LET map(old) ==
          IF \E i \in 1..Len(design.units) : design.units[i].uid = old
          THEN newUnits[CHOOSE i \in 1..Len(design.units) :
                          /\ design.units[i].uid = old
                          /\ \A j \in (i + 1)..Len(design.units) :
                               design.units[j].uid # old].uid
          ELSE old
    IN  Res("ok", newUnits,
            [i \in 1..Len(design.connections) |->
               [aUid |-> map(design.connections[i].aUid),
                aConn |-> design.connections[i].aConn,
                bUid |-> map(design.connections[i].bUid),
                bConn |-> design.connections[i].bConn]],
            IF Len(newUnits) > 0 THEN newUnits[1].uid ELSE selectedUid)))

(***************************************************************************)
(* Initial state and event handlers                                        *)
(***************************************************************************)
\* op: the operation; status: its outcome; a, b, c: its arguments
Last(op, status, a, b, c) ==
  [op |-> op, status |-> status, a |-> a, b |-> b, c |-> c]

Init ==
  /\ units = << NewUnit("a1", "stable_12x12", Q(0), Q(0), 0) >>
  /\ connections = << >>
  /\ selectedUid = "a1"
  /\ draggingModuleId = ""
  /\ draggingUnitUid = ""
  /\ dragPosition = << >>
  /\ snappedConnector = << >>
  /\ dragOffset = << >>
  /\ layoutRotation = 0
  /\ crashed = FALSE
  /\ last = Last("init", "ok", "", "", "")
  /\ nLayoutRotations = 0
  /\ nOps = 0
  /\ probe = NoProbe
  /\ batch = NoBatch

NoDrag == draggingModuleId = "" /\ draggingUnitUid = ""

\* the render after a state change throws when a unit names an unknown module
RenderThrows(us) == \E i \in 1..Len(us) : ~ KnownModule(us[i].moduleId)

Commit(r) ==
  /\ units' = r.units
  /\ connections' = r.connections
  /\ selectedUid' = r.selectedUid
  /\ nOps' = IF r.status = "ok" THEN nOps + 1 ELSE nOps

\* commit outcome r of operation op called with a, b, c
CommitAs(r, op, a, b, c) ==
  /\ Commit(r)
  /\ last' = Last(op, r.status, a, b, c)

\* commit a loaded layout; its render throws on an unknown module
CommitLoaded(r) ==
  /\ Commit(r)
  /\ crashed' = RenderThrows(r.units)

\* commit what a pointer-up handler decided on
CommitDrop(d) == CommitAs(d.r, d.op, d.a, d.b, d.c)

CanCommit == nOps < MaxOps

InBox(p, u) ==
  LetIn(bbox(u, getModule(u.moduleId)), LAMBDA b :
    /\ RLe(b.x, p.x) /\ RLe(p.x, RAdd(b.x, b.w))
    /\ RLe(b.y, p.y) /\ RLe(p.y, RAdd(b.y, b.d)))

\* nearest connector for a new module centred on the pointer
NearestForModule(moduleId, p) ==
  findNearestConnector(units, connections, moduleId,
                       RSub(p.x, RDivInt(Q(getModule(moduleId).widthFt), 2)),
                       RSub(p.y, RDivInt(Q(getModule(moduleId).depthFt), 2)), 0, "")

\* nearest connector for the dragged unit at the pointer
NearestForUnit(p) ==
  LetIn(FindUnit(units, draggingUnitUid), LAMBDA unit :
    IF unit = <<>> THEN <<>>
    ELSE findNearestConnector(units, connections, unit[1].moduleId,
                              RSub(p.x, dragOffset[1].x),
                              RSub(p.y, dragOffset[1].y), unit[1].rot,
                              draggingUnitUid))

RotateLayout ==
  /\ ~crashed /\ NoDrag /\ CanCommit
  /\ nLayoutRotations < MaxLayoutRotations
  /\ units' = (IF Len(units) = 0 THEN units ELSE rotateLayoutUnits(units))
  /\ layoutRotation' = (IF Len(units) = 0 THEN layoutRotation
                        ELSE (layoutRotation + 90) % 360)
  /\ nLayoutRotations' = nLayoutRotations + 1
  /\ nOps' = nOps + 1
  /\ last' = Last("rotateLayout", "ok", "", "", "")
  /\ UNCHANGED <<connections, selectedUid, dragVars, crashed>>
  /\ UNCHANGED stepVars

LoadTemplate(templateId) ==
  /\ ~crashed /\ NoDrag /\ CanCommit
  /\ CommitLoaded(loadTemplateLayout(templateId))
  /\ last' = Last("loadTemplate", "ok", templateId, "", "")
  /\ UNCHANGED <<dragVars, layoutRotation, nLayoutRotations>>
  /\ UNCHANGED stepVars

\* the pre-built design selector: loadDesign(e.target.value)
LoadDesign(designId) ==
  /\ ~crashed /\ NoDrag /\ CanCommit
  /\ CommitLoaded(loadDesignLayout(designId))
  /\ last' = Last("loadDesign", "ok", designId, "", "")
  /\ UNCHANGED <<dragVars, layoutRotation, nLayoutRotations>>
  /\ UNCHANGED stepVars

\* mouse down on an "+ Add" button
HandleButtonMouseDown(moduleId) ==
  /\ ~crashed /\ NoDrag /\ CanCommit
  /\ Len(units) < MaxUnits
  /\ draggingModuleId' = moduleId
  /\ last' = Last("buttonMouseDown", "ok", moduleId, "", "")
  /\ UNCHANGED <<units, connections, selectedUid, draggingUnitUid, dragPosition,
                 snappedConnector, dragOffset, layoutRotation, crashed,
                 nLayoutRotations, nOps>>
  /\ UNCHANGED stepVars

\* a click on an "+ Add" button (mouse down and mouse up on the button, which
\* start and cancel a drag, then onClick): attach(moduleId, "RIGHT") to the
\* selected unit
ButtonClick(moduleId) ==
  /\ ~crashed /\ NoDrag /\ CanCommit
  /\ Len(units) < MaxUnits
  /\ CommitAs(attach(moduleId, FindUnit(units, selectedUid)),
              "attach", moduleId, selectedUid, "RIGHT")
  /\ UNCHANGED <<dragVars, layoutRotation, crashed, nLayoutRotations>>
  /\ UNCHANGED stepVars

\* mutation: a pointer move carries the dragged unit along
HandleMouseMoveLive(p) ==
  /\ ~crashed
  /\ ~NoDrag
  /\ dragPosition' = <<p>>
  /\ units' =
       (IF dragOffset # <<>> /\ FindUnit(units, draggingUnitUid) # <<>>
        THEN ReplaceUnit(units, draggingUnitUid,
                         [FindUnit(units, draggingUnitUid)[1] EXCEPT
                            !.xFt = RSub(p.x, dragOffset[1].x),
                            !.yFt = RSub(p.y, dragOffset[1].y)])
        ELSE units)
  /\ last' = Last("mouseMove", "ok", "", "", "")
  /\ UNCHANGED <<connections, selectedUid, draggingModuleId, draggingUnitUid,
                 snappedConnector, dragOffset, layoutRotation, crashed,
                 nLayoutRotations, nOps>>
  /\ UNCHANGED stepVars

HandleMouseMove(p) ==
  /\ ~crashed
  /\ ~NoDrag
  /\ dragPosition' = <<p>>
  /\ snappedConnector' =
       (IF draggingModuleId # "" THEN NearestForModule(draggingModuleId, p)
        ELSE IF dragOffset # <<>> /\ FindUnit(units, draggingUnitUid) # <<>>
        THEN NearestForUnit(p)
        ELSE snappedConnector)
  /\ last' = Last("mouseMove", "ok", "", "", "")
  /\ UNCHANGED <<units, connections, selectedUid, draggingModuleId, draggingUnitUid,
                 dragOffset, layoutRotation, crashed, nLayoutRotations, nOps>>
  /\ UNCHANGED stepVars

\* what the pointer-up handlers commit for a new module released at p
DropModule(p) ==
  LetIn(NearestForModule(draggingModuleId, p), LAMBDA nearest :
    IF nearest # <<>>
    THEN [op |-> "attach",
          r |-> attach(draggingModuleId, FindUnit(units, nearest[1].uid)),
          a |-> draggingModuleId, b |-> nearest[1].uid, c |-> nearest[1].connId]
    ELSE [op |-> "placeFree",
          r |-> placeModuleFree(draggingModuleId, p.x, p.y),
          a |-> draggingModuleId, b |-> "", c |-> ""])

\* what the pointer-up handlers commit for a unit released at p; snap is the
\* connector the handler snaps to (<<>> for none)
DropUnit(p, snap) ==
  IF snap # <<>>
  THEN [op |-> "reconnect",
        r |-> connectExistingUnit(draggingUnitUid, snap[1].connId, snap[1].uid),
        a |-> draggingUnitUid, b |-> snap[1].uid, c |-> snap[1].connId]
  ELSE [op |-> "moveFree",
        r |-> moveFree(draggingUnitUid, RSub(p.x, dragOffset[1].x),
                       RSub(p.y, dragOffset[1].y)),
        a |-> draggingUnitUid, b |-> "", c |-> ""]

\* onMouseUp of the work surface
HandleMouseUp(p) ==
  /\ ~crashed
  /\ ~NoDrag
  /\ IF draggingModuleId # ""
     THEN /\ CommitDrop(DropModule(p))
          /\ draggingModuleId' = ""
          /\ dragPosition' = <<>>
          /\ snappedConnector' = <<>>
          /\ UNCHANGED <<draggingUnitUid, dragOffset>>
     ELSE IF dragOffset # <<>>
     THEN /\ CommitDrop(DropUnit(p, snappedConnector))
          /\ draggingUnitUid' = ""
          /\ dragPosition' = <<>>
          /\ dragOffset' = <<>>
          /\ snappedConnector' = <<>>
          /\ UNCHANGED draggingModuleId
     ELSE /\ last' = Last("mouseUp", "none", "", "", "")
          /\ UNCHANGED <<units, connections, selectedUid, dragVars, nOps>>
  /\ UNCHANGED <<layoutRotation, crashed, nLayoutRotations>>
  /\ UNCHANGED stepVars

\* the document-level mouseup listener, pointer over the work surface at p
HandleDocumentMouseUp(p) ==
  /\ ~crashed
  /\ ~NoDrag
  /\ IF draggingModuleId # ""
     THEN /\ CommitDrop(DropModule(p))
          /\ draggingModuleId' = ""
          /\ dragPosition' = <<>>
          /\ snappedConnector' = <<>>
          /\ UNCHANGED <<draggingUnitUid, dragOffset>>
     ELSE IF dragOffset # <<>>
     THEN /\ IF FindUnit(units, draggingUnitUid) # <<>>
             THEN CommitDrop(DropUnit(p, NearestForUnit(p)))
             ELSE /\ last' = Last("mouseUp", "none", "", "", "")
                  /\ UNCHANGED <<units, connections, selectedUid, nOps>>
          /\ draggingUnitUid' = ""
          /\ dragPosition' = <<>>
          /\ dragOffset' = <<>>
          /\ snappedConnector' = <<>>
          /\ UNCHANGED draggingModuleId
     ELSE /\ last' = Last("mouseUp", "none", "", "", "")
          /\ UNCHANGED <<units, connections, selectedUid, dragVars, nOps>>
  /\ UNCHANGED <<layoutRotation, crashed, nLayoutRotations>>
  /\ UNCHANGED stepVars

\* the document-level mouseup listener, pointer outside the work surface
HandleDocumentMouseUpOutside ==
  /\ ~crashed
  /\ ~NoDrag
  /\ IF draggingModuleId # ""
     THEN /\ draggingModuleId' = ""
          /\ dragPosition' = <<>>
          /\ snappedConnector' = <<>>
          /\ UNCHANGED <<draggingUnitUid, dragOffset>>
     ELSE IF dragOffset # <<>>
     THEN /\ draggingUnitUid' = ""
          /\ dragPosition' = <<>>
          /\ dragOffset' = <<>>
          /\ snappedConnector' = <<>>
          /\ UNCHANGED draggingModuleId
     ELSE UNCHANGED dragVars
  /\ last' = Last("mouseUpOutside", "ok", "", "", "")
  /\ UNCHANGED <<units, connections, selectedUid, layoutRotation, crashed,
                 nLayoutRotations, nOps>>
  /\ UNCHANGED stepVars

HandleMouseLeave ==
  /\ ~crashed
  /\ ~NoDrag
  /\ draggingModuleId' = ""
  /\ draggingUnitUid' = ""
  /\ dragPosition' = <<>>
  /\ snappedConnector' = <<>>
  /\ dragOffset' = <<>>
  /\ last' = Last("mouseLeave", "ok", "", "", "")
  /\ UNCHANGED <<units, connections, selectedUid, layoutRotation, crashed,
                 nLayoutRotations, nOps>>
  /\ UNCHANGED stepVars

\* mouse down on the unit with index i, pointer at p inside its box
HandleUnitMouseDown(i, p) ==
  /\ ~crashed /\ NoDrag /\ CanCommit
  /\ i \in 1..Len(units)
  /\ InBox(p, units[i])
  /\ draggingUnitUid' = units[i].uid
  /\ dragOffset' = <<[x |-> RSub(p.x, units[i].xFt), y |-> RSub(p.y, units[i].yFt)]>>
  /\ dragPosition' = <<p>>
  /\ selectedUid' = units[i].uid
  /\ last' = Last("unitMouseDown", "ok", units[i].uid, "", "")
  /\ UNCHANGED <<units, connections, draggingModuleId, snappedConnector,
                 layoutRotation, crashed, nLayoutRotations, nOps>>
  /\ UNCHANGED stepVars

\* the Rotate button of the selected-unit panel
RotateSelected ==
  /\ ~crashed /\ NoDrag /\ CanCommit
  /\ FindUnit(units, selectedUid) # <<>>
  /\ CommitAs(rotateSelected, "rotateUnit", selectedUid, "", "")
  /\ UNCHANGED <<dragVars, layoutRotation, crashed, nLayoutRotations>>
  /\ UNCHANGED stepVars

\* the Delete button of the selected-unit panel: deleteUnit(selected.uid)
DeleteSelected ==
  /\ ~crashed /\ NoDrag /\ CanCommit
  /\ FindUnit(units, selectedUid) # <<>>
  /\ CommitAs(deleteUnit(selectedUid), "deleteUnit", selectedUid, "", "")
  /\ UNCHANGED <<dragVars, layoutRotation, crashed, nLayoutRotations>>
  /\ UNCHANGED stepVars

\* a checkbox of the selected-unit panel, which lists the module's extras
ToggleExtra(extraId) ==
  /\ ~crashed /\ NoDrag /\ CanCommit
  /\ FindUnit(units, selectedUid) # <<>>
  /\ \E i \in 1..Len(getModule(FindUnit(units, selectedUid)[1].moduleId).extras) :
       getModule(FindUnit(units, selectedUid)[1].moduleId).extras[i].id = extraId
  /\ units' = toggleExtra(extraId)
  /\ nOps' = nOps + 1
  /\ last' = Last("toggleExtra", "ok", selectedUid, extraId, "")
  /\ UNCHANGED <<connections, selectedUid, dragVars, layoutRotation, crashed,
                 nLayoutRotations>>
  /\ UNCHANGED stepVars

Next ==
  \/ RotateLayout
  \/ \E t \in TemplateIds : LoadTemplate(t)
  \/ \E d \in DesignIds : LoadDesign(d)
  \/ \E m \in DragModules : HandleButtonMouseDown(m)
  \/ \E m \in DragModules : ButtonClick(m)
  \/ \E p \in Pointer : HandleMouseMove(p)
  \/ \E p \in Pointer : HandleMouseUp(p)
  \/ \E p \in Pointer : HandleDocumentMouseUp(p)
  \/ HandleDocumentMouseUpOutside
  \/ HandleMouseLeave
  \/ \E i \in 1..MaxUnits + 1, p \in Pointer : HandleUnitMouseDown(i, p)
  \/ RotateSelected
  \/ DeleteSelected
  \/ \E e \in ToggleExtras : ToggleExtra(e)

Spec == Init /\ [][Next]_vars

\* the layout operations without template and design loading
NextEngine ==
  \/ RotateLayout
  \/ \E m \in DragModules : HandleButtonMouseDown(m)
  \/ \E m \in DragModules : ButtonClick(m)
  \/ \E p \in Pointer : HandleMouseMove(p)
  \/ \E p \in Pointer : HandleMouseUp(p)
  \/ \E p \in Pointer : HandleDocumentMouseUp(p)
  \/ HandleDocumentMouseUpOutside
  \/ HandleMouseLeave
  \/ \E i \in 1..MaxUnits + 1, p \in Pointer : HandleUnitMouseDown(i, p)
  \/ RotateSelected
  \/ DeleteSelected
  \/ \E e \in ToggleExtras : ToggleExtra(e)

SpecEngine == Init /\ [][NextEngine]_vars

(***************************************************************************)
(* Handlers at the grain of their state setter calls: a handler computes   *)
(* from the state of the last render, calls the setters one after the      *)
(* other, and the component renders the queued updates together once the   *)
(* handler has returned.                                                   *)
(***************************************************************************)
Call(cell, value) == [cell |-> cell, value |-> value]

\* the setter calls of operation op with outcome r, in the order of the source
SetterCalls(op, r) ==
  IF r.status # "ok" THEN << >>
  ELSE CASE op = "loadTemplate" ->
              << Call("units", r.units), Call("connections", r.connections) >>
                \o (IF Len(r.units) > 0
                    THEN << Call("selectedUid", r.selectedUid) >> ELSE << >>)
         [] op = "deleteUnit" ->
              << Call("units", r.units), Call("connections", r.connections) >>
                \o (IF r.selectedUid # selectedUid
                    THEN << Call("selectedUid", r.selectedUid) >> ELSE << >>)
         [] op = "placeFree" ->
              << Call("units", r.units), Call("selectedUid", r.selectedUid) >>
         [] op = "moveFree" ->
              << Call("units", r.units), Call("connections", r.connections) >>
         [] op \in {"attach", "reconnect"} ->
              << Call("units", r.units), Call("connections", r.connections),
                 Call("selectedUid", r.selectedUid) >>

\* the calls that end the drag of a new module, and of a placed unit
EndModuleDrag ==
  << Call("draggingModuleId", ""), Call("dragPosition", << >>),
     Call("snappedConnector", << >>) >>

EndUnitDrag ==
  << Call("draggingUnitUid", ""), Call("dragPosition", << >>),
     Call("dragOffset", << >>), Call("snappedConnector", << >>) >>

\* the handler starts: its setter calls are still to be made
Begin(calls, op, status, a, b, c) ==
  /\ batch' = [todo |-> calls, queued |-> << >>]
  /\ last' = Last(op, status, a, b, c)
  /\ UNCHANGED <<units, connections, selectedUid, dragVars, layoutRotation,
                 crashed, nLayoutRotations, nOps, probe>>

BeginDrop(d, endDrag) ==
  Begin(SetterCalls(d.op, d.r) \o endDrag, d.op, d.r.status, d.a, d.b, d.c)

CanBegin == batch = NoBatch /\ ~crashed /\ nOps < MaxBatchOps

BatchLoadTemplate(templateId) ==
  /\ CanBegin /\ NoDrag
  /\ Begin(SetterCalls("loadTemplate", loadTemplateLayout(templateId)),
           "loadTemplate", "ok", templateId, "", "")

BatchDeleteSelected ==
  /\ CanBegin /\ NoDrag
  /\ FindUnit(units, selectedUid) # <<>>
  /\ Begin(SetterCalls("deleteUnit", deleteUnit(selectedUid)),
           "deleteUnit", deleteUnit(selectedUid).status, selectedUid, "", "")

BatchButtonMouseDown(moduleId) ==
  /\ CanBegin
  /\ HandleButtonMouseDown(moduleId)

BatchUnitMouseDown(i, p) ==
  /\ CanBegin
  /\ HandleUnitMouseDown(i, p)

\* the document-level mouseup listener, pointer over the work surface at p
BatchDocumentMouseUp(p) ==
  /\ batch = NoBatch /\ ~crashed
  /\ ~NoDrag
  /\ IF draggingModuleId # ""
     THEN BeginDrop(DropModule(p), EndModuleDrag)
     ELSE IF dragOffset # <<>>
     THEN IF FindUnit(units, draggingUnitUid) # <<>>
          THEN BeginDrop(DropUnit(p, NearestForUnit(p)), EndUnitDrag)
          ELSE Begin(EndUnitDrag, "mouseUp", "none", "", "", "")
     ELSE Begin(<< >>, "mouseUp", "none", "", "", "")

\* the running handler makes its next setter call
CallSetter ==
  /\ batch.todo # << >>
  /\ batch' = [todo |-> Tail(batch.todo),
               queued |-> Append(batch.queued, Head(batch.todo))]
  /\ UNCHANGED <<units, connections, selectedUid, dragVars, layoutRotation,
                 crashed, last, nLayoutRotations, nOps, probe>>

\* the value the next render gives a state cell: that of the last queued call
\* for it, or the one it has
Queued(cell, old) ==
  IF \E i \in 1..Len(batch.queued) : batch.queued[i].cell = cell
  THEN batch.queued[CHOOSE i \in 1..Len(batch.queued) :
                      /\ batch.queued[i].cell = cell
                      /\ \A j \in (i + 1)..Len(batch.queued) :
                           batch.queued[j].cell # cell].value
  ELSE old

\* mutation: the component renders after any setter call
HandlerRunning(b) == TRUE

\* the handler has made all its setter calls and returned
HandlerReturned(b) == b.todo = << >>

\* the component renders with the queued updates
Render ==
  /\ batch.queued # << >>
  /\ HandlerReturned(batch)
  /\ units' = Queued("units", units)
  /\ connections' = Queued("connections", connections)
  /\ selectedUid' = Queued("selectedUid", selectedUid)
  /\ draggingModuleId' = Queued("draggingModuleId", draggingModuleId)
  /\ draggingUnitUid' = Queued("draggingUnitUid", draggingUnitUid)
  /\ dragPosition' = Queued("dragPosition", dragPosition)
  /\ snappedConnector' = Queued("snappedConnector", snappedConnector)
  /\ dragOffset' = Queued("dragOffset", dragOffset)
  /\ crashed' = RenderThrows(Queued("units", units))
  /\ nOps' = IF \E i \in 1..Len(batch.queued) : batch.queued[i].cell = "units"
             THEN nOps + 1 ELSE nOps
  /\ batch' = [batch EXCEPT !.queued = << >>]
  /\ UNCHANGED <<layoutRotation, last, nLayoutRotations, probe>>

NextBatch ==
  \/ \E t \in TemplateIds : BatchLoadTemplate(t)
  \/ BatchDeleteSelected
  \/ \E m \in DragModules : BatchButtonMouseDown(m)
  \/ \E i \in 1..MaxUnits + 1, p \in Pointer : BatchUnitMouseDown(i, p)
  \/ \E p \in Pointer : BatchDocumentMouseUp(p)
  \/ CallSetter
  \/ Render

SpecBatch == Init /\ [][NextBatch]_vars

(***************************************************************************)
(* Calls of the geometry kernel (lib/geometry.ts)                          *)
(***************************************************************************)
\* width and depth of a box, a point (x, y) and a direction (nx, ny)
TurnInputs ==
  { [w |-> e[1], d |-> e[2], x |-> x, y |-> y, nx |-> n[1], ny |-> n[2]] :
      e \in {<<12, 12>>, <<16, 12>>, <<6, 12>>},
      x \in {Q(0), Norm(5, 2), Q(10)},
      y \in {Q(0), Q(6), Q(12)},
      n \in {<<1, 0>>, <<0, -1>>, <<-1, 0>>, <<0, 1>>} }

Box(x, y, w, d) == [x |-> x, y |-> y, w |-> Q(w), d |-> Q(d)]

\* pairs of boxes: apart, sharing an edge or a corner, crossing, nested
OverlapInputs ==
  { [a |-> a, b |-> Box(x, y, e[1], e[2])] :
      a \in {Box(Q(0), Q(0), 4, 3), Box(Q(1), Q(1), 2, 2)},
      x \in {Q(-4), Norm(-3, 2), Q(0), Q(4), Norm(9, 2)},
      y \in {Q(-3), Q(-1), Q(0), Q(3)},
      e \in {<<4, 3>>, <<2, 5>>} }

InitGeometry ==
  /\ units = << NewUnit("a1", "stable_12x12", Q(0), Q(0), 0) >>
  /\ connections = << >>
  /\ selectedUid = "a1"
  /\ draggingModuleId = ""
  /\ draggingUnitUid = ""
  /\ dragPosition = << >>
  /\ snappedConnector = << >>
  /\ dragOffset = << >>
  /\ layoutRotation = 0
  /\ crashed = FALSE
  /\ last = Last("init", "ok", "", "", "")
  /\ nLayoutRotations = 0
  /\ nOps = 0
  /\ batch = NoBatch
  /\ \/ \E i \in TurnInputs :
          probe = [fn |-> "turn", from |-> i, now |-> i, k |-> 0]
     \/ \E i \in OverlapInputs :
          probe = [fn |-> "overlaps", a |-> i.a, b |-> i.b, called |-> FALSE,
                   ab |-> FALSE, ba |-> FALSE]

\* the 90-degree case of rotatedSize, rotatePoint and rotateVec applied to the
\* current extents, point and direction
QuarterTurn ==
  /\ probe.fn = "turn"
  /\ probe.k < MaxTurns
  /\ probe' =
       [probe EXCEPT
          !.k = @ + 1,
          !.now =
            [w |-> rotatedSize(probe.now.w, probe.now.d, 90).w,
             d |-> rotatedSize(probe.now.w, probe.now.d, 90).d,
             x |-> rotatePoint(probe.now.x, probe.now.y, Q(probe.now.w),
                               Q(probe.now.d), 90).x,
             y |-> rotatePoint(probe.now.x, probe.now.y, Q(probe.now.w),
                               Q(probe.now.d), 90).y,
             nx |-> rotateVec(probe.now.nx, probe.now.ny, 90).nx,
             ny |-> rotateVec(probe.now.nx, probe.now.ny, 90).ny]]
  /\ UNCHANGED <<units, connections, selectedUid, dragVars, layoutRotation,
                 crashed, last, nLayoutRotations, nOps, batch>>

\* overlaps(a, b) and overlaps(b, a)
CallOverlaps ==
  /\ probe.fn = "overlaps"
  /\ ~ probe.called
  /\ probe' = [probe EXCEPT !.called = TRUE,
                            !.ab = overlaps(probe.a, probe.b),
                            !.ba = overlaps(probe.b, probe.a)]
  /\ UNCHANGED <<units, connections, selectedUid, dragVars, layoutRotation,
                 crashed, last, nLayoutRotations, nOps, batch>>

NextGeometry ==
  \/ QuarterTurn
  \/ CallOverlaps

SpecGeometry == InitGeometry /\ [][NextGeometry]_vars

(***************************************************************************)
(* Calls of isValidPosition                                                *)
(***************************************************************************)
\* the units the candidate is compared with
PlacementLayouts ==
  { << NewUnit("a1", "stable_12x12", Q(0), Q(0), 0) >>,
    << NewUnit("a1", "stable_12x12", Q(0), Q(0), 0),
       NewUnit("a2", "stable_6x12", Q(12), Q(0), 90) >> }

\* candidates apart from the unit at the origin, touching it, and overlapping
\* it by 1/4 ft, 1/2 ft, 1 ft and fully
PlacementInputs ==
  { [units |-> us, moduleId |-> n, x |-> x, y |-> y, rot |-> rot,
     excludeUid |-> ex] :
      us \in PlacementLayouts,
      n \in {"stable_12x12", "stable_6x12"},
      x \in {Q(-20), Q(-12), Norm(-47, 4), Norm(-23, 2), Q(-11), Q(0)},
      y \in {Q(0), Norm(47, 4), Q(12)},
      rot \in {0, 90},
      ex \in {"", "a1", "a2"} }

InitPlacement ==
  /\ units = << NewUnit("a1", "stable_12x12", Q(0), Q(0), 0) >>
  /\ connections = << >>
  /\ selectedUid = "a1"
  /\ draggingModuleId = ""
  /\ draggingUnitUid = ""
  /\ dragPosition = << >>
  /\ snappedConnector = << >>
  /\ dragOffset = << >>
  /\ layoutRotation = 0
  /\ crashed = FALSE
  /\ last = Last("init", "ok", "", "", "")
  /\ nLayoutRotations = 0
  /\ nOps = 0
  /\ batch = NoBatch
  /\ \E i \in PlacementInputs :
       probe = [fn |-> "isValidPosition", arg |-> i, called |-> FALSE,
                valid |-> FALSE]

\* isValidPosition(moduleId, x, y, rot, excludeUid) over the units of the call
CallIsValidPosition ==
  /\ probe.fn = "isValidPosition"
  /\ ~ probe.called
  /\ probe' = [probe EXCEPT
                 !.called = TRUE,
                 !.valid = isValidPosition(probe.arg.units, probe.arg.moduleId,
                                           probe.arg.x, probe.arg.y,
                                           probe.arg.rot, probe.arg.excludeUid)]
  /\ UNCHANGED <<units, connections, selectedUid, dragVars, layoutRotation,
                 crashed, last, nLayoutRotations, nOps, batch>>

NextPlacement == CallIsValidPosition

SpecPlacement == InitPlacement /\ [][NextPlacement]_vars

(***************************************************************************)
(* The cost shown for a layout                                             *)
(***************************************************************************)
\* selections of extras a unit of module moduleId can carry: none, the
\* module's first extra, its second and first
ExtraChoices(moduleId) ==
  { << >>,
    << getModule(moduleId).extras[1].id >>,
    << getModule(moduleId).extras[2].id, getModule(moduleId).extras[1].id >> }

CostModules == {"stable_12x12", "corner_16x12", "tack_room_12x12"}

AllExtraChoices == UNION {ExtraChoices(n) : n \in CostModules}

CostUnit(id, x, moduleId, extras) ==
  [NewUnit(id, moduleId, Q(x), Q(0), 0) EXCEPT !.selectedExtras = extras]

\* layouts of no, one and two units
CostLayouts ==
  { << >> }
  \cup { << CostUnit("a1", 0, m, e) >> :
           m \in CostModules, e \in AllExtraChoices }
  \cup { << CostUnit("a1", 0, f[1], f[2]), CostUnit("a2", 20, f[3], f[4]) >> :
           f \in CostModules \X AllExtraChoices
                 \X CostModules \X AllExtraChoices }

\* a unit carries only extras of its own module
OwnExtras(u) ==
  \A i \in 1..Len(u.selectedExtras) :
    \E j \in 1..Len(getModule(u.moduleId).extras) :
      getModule(u.moduleId).extras[j].id = u.selectedExtras[i]

\* what the pricing manager has saved: nothing, or prices for some ids
PricingInputs ==
  { << >>,
    << [modules |-> << >>, extras |-> << >>] >>,
    << [modules |-> [id \in {"stable_12x12"} |-> 4100],
        extras |-> [id \in {"partition"} |-> 0]] >>,
    << [modules |-> [id \in {"corner_16x12", "tack_room_12x12"} |->
                       IF id = "corner_16x12" THEN 0 ELSE 4250],
        extras |-> [id \in {"window", "feed_store", "saddle_rack"} |-> 275]] >> }

InitCost ==
  /\ units = << NewUnit("a1", "stable_12x12", Q(0), Q(0), 0) >>
  /\ connections = << >>
  /\ selectedUid = "a1"
  /\ draggingModuleId = ""
  /\ draggingUnitUid = ""
  /\ dragPosition = << >>
  /\ snappedConnector = << >>
  /\ dragOffset = << >>
  /\ layoutRotation = 0
  /\ crashed = FALSE
  /\ last = Last("init", "ok", "", "", "")
  /\ nLayoutRotations = 0
  /\ nOps = 0
  /\ batch = NoBatch
  /\ \E us \in CostLayouts, pricing \in PricingInputs :
       /\ \A i \in 1..Len(us) : OwnExtras(us[i])
       /\ probe = [fn |-> "totalCost", units |-> us, pricing |-> pricing,
                   called |-> FALSE, cost |-> 0]

\* the useMemo body of totalCost
CallTotalCost ==
  /\ probe.fn = "totalCost"
  /\ ~ probe.called
  /\ probe' = [probe EXCEPT !.called = TRUE,
                            !.cost = totalCost(probe.units, probe.pricing)]
  /\ UNCHANGED <<units, connections, selectedUid, dragVars, layoutRotation,
                 crashed, last, nLayoutRotations, nOps, batch>>

NextCost == CallTotalCost

SpecCost == InitCost /\ [][NextCost]_vars

(***************************************************************************)
(* Repeated rotation of the whole layout                                   *)
(***************************************************************************)
\* where a free placement has put a second unit (top-left corner, in feet)
TurnPlaces == { [x |-> Q(20), y |-> Q(-3)], [x |-> Norm(41, 2), y |-> Q(10)],
                [x |-> Q(27), y |-> Norm(5, 2)] }

\* a built-in template as loadTemplate leaves it on the initial layout
LoadedTemplate(templateId) ==
  LetIn(DEFAULT_TEMPLATES[CHOOSE i \in 1..Len(DEFAULT_TEMPLATES) :
                            DEFAULT_TEMPLATES[i].id = templateId], LAMBDA t :
    LET map(old) ==
          UidPool[1 + CHOOSE i \in 1..Len(t.units) : t.units[i].uid = old]
    IN  [units |-> [i \in 1..Len(t.units) |->
                      [t.units[i] EXCEPT !.uid = UidPool[1 + i]]],
         connections |->
           [i \in 1..Len(t.connections) |->
              [aUid |-> map(t.connections[i].aUid),
               aConn |-> t.connections[i].aConn,
               bUid |-> map(t.connections[i].bUid),
               bConn |-> t.connections[i].bConn]]])

\* layouts rotateLayout is called on: the first unit rotated in place, alone
\* or with a second unit placed freely and rotated in place, and the loaded
\* templates whose modules exist
TurnLayouts ==
  { [units |-> << NewUnit("a1", "stable_12x12", Q(0), Q(0), r1) >>,
     connections |-> << >>] : r1 \in Range(AllRotations) }
  \cup
  { [units |-> << NewUnit("a1", "stable_12x12", Q(0), Q(0), f[1]),
                  NewUnit("a2", f[2], f[3].x, f[3].y, f[4]) >>,
     connections |-> << >>] :
      f \in Range(AllRotations) \X DragModules \X TurnPlaces
             \X Range(AllRotations) }
  \cup
  { LoadedTemplate(t) : t \in {"single_stable", "straight_row", "u_shaped"} }

InitTurn ==
  /\ \E l \in TurnLayouts :
       /\ units = l.units
       /\ connections = l.connections
       /\ selectedUid = l.units[1].uid
  /\ draggingModuleId = ""
  /\ draggingUnitUid = ""
  /\ dragPosition = << >>
  /\ snappedConnector = << >>
  /\ dragOffset = << >>
  /\ layoutRotation = 0
  /\ crashed = FALSE
  /\ last = Last("init", "ok", "", "", "")
  /\ nLayoutRotations = 0
  /\ nOps = 0
  /\ probe = NoProbe
  /\ batch = NoBatch

\* the "Rotate Layout" button pressed again and again
RotateLayoutRepeated ==
  /\ ~crashed /\ NoDrag
  /\ nLayoutRotations < MaxTurns
  /\ units' = (IF Len(units) = 0 THEN units ELSE rotateLayoutUnits(units))
  /\ layoutRotation' = (IF Len(units) = 0 THEN layoutRotation
                        ELSE (layoutRotation + 90) % 360)
  /\ nLayoutRotations' = nLayoutRotations + 1
  /\ nOps' = nOps + 1
  /\ last' = Last("rotateLayout", "ok", "", "", "")
  /\ UNCHANGED <<connections, selectedUid, dragVars, crashed>>
  /\ UNCHANGED stepVars

NextTurn == RotateLayoutRepeated

SpecTurn == InitTurn /\ [][NextTurn]_vars


(***************************************************************************)
(* Properties                                                              *)
(***************************************************************************)
BoxOf(u) == bbox(u, getModule(u.moduleId))

\* length of the intersection of [lo1, lo1 + len1] and [lo2, lo2 + len2]
AxisOverlap(lo1, len1, lo2, len2) ==
  RSub(RMin(RAdd(lo1, len1), RAdd(lo2, len2)), RMax(lo1, lo2))

\* indices of the connections that have unit u as an endpoint
TouchingU(cs, u) == {i \in 1..Len(cs) : cs[i].aUid = u \/ cs[i].bUid = u}

\* the endpoints of connection c, as (unit id, connector id) pairs
EndA(c) == <<c.aUid, c.aConn>>

EndB(c) == <<c.bUid, c.bConn>>

\* index of the unit with id u
UnitIndex(us, u) == CHOOSE i \in 1..Len(us) : us[i].uid = u

\* world position of connector id conn of unit u
WorldOf(u, conn) ==
  LET m == getModule(u.moduleId)
      w == connectorWorld(u, m, FindConnector(m, conn)[1])
  IN  <<w.x, w.y>>

\* C1: in every layout reachable from the initial single unit by attach, free
\* placement, reconnect, free-space move, rotateUnit, rotateLayout and
\* deleteUnit, no two distinct units have rotated bounding boxes whose overlap
\* exceeds 0.5 ft on both the x axis and the y axis
C1_NoOverlapBeyondTolerance ==
  \A i, j \in 1..Len(units) :
    i < j =>
      LET a == BoxOf(units[i])
          b == BoxOf(units[j])
      IN  ~ ( /\ RLt(<<1, 2>>, AxisOverlap(a.x, a.w, b.x, b.w))
              /\ RLt(<<1, 2>>, AxisOverlap(a.y, a.d, b.y, b.d)) )

\* a second unit has been placed in free space edge to edge with another one
C1_Witness ==
  /\ last.op = "placeFree" /\ last.status = "ok"
  /\ \E i, j \in 1..Len(units) :
       /\ i # j
       /\ LET a == BoxOf(units[i])
              b == BoxOf(units[j])
          IN  /\ AxisOverlap(a.x, a.w, b.x, b.w) = Q(0)
              /\ RLt(<<1, 2>>, AxisOverlap(a.y, a.d, b.y, b.d))

\* C2: in every reachable layout each (unit id, connector id) pair is an
\* endpoint of at most one connection
C2_ConnectorUsedAtMostOnce ==
  \A i, j \in 1..Len(connections) :
    /\ EndA(connections[i]) # EndB(connections[j])
    /\ i # j => /\ EndA(connections[i]) # EndA(connections[j])
                /\ EndB(connections[i]) # EndB(connections[j])

\* attach has been called on a unit of a layout that holds two connections
C2_Witness ==
  /\ last.op = "attach"
  /\ Len(connections) >= 2
  /\ TouchingU(connections, last.b) # {}

\* C3: in every reachable layout both endpoint unit ids of every connection
\* are ids of units of the layout
C3_NoDanglingConnection ==
  \A i \in 1..Len(connections) :
    /\ connections[i].aUid \in UnitIds(units)
    /\ connections[i].bUid \in UnitIds(units)

\* a connected unit has been deleted or moved to free space and another
\* connection remains
C3_Witness ==
  /\ last.op \in {"deleteUnit", "moveFree"} /\ last.status = "ok"
  /\ Len(connections) >= 1
  /\ Len(units) >= 2

\* C5: from the initial layout, attaching a second stable_12x12 to the first
\* unit's east connector yields 2 units and 1 connection, the second unit's
\* west connector at the world position of the first unit's east connector,
\* and no overlap between the two boxes
C5_AttachEastOfInitialUnit ==
  [][ ( /\ units = << NewUnit("a1", "stable_12x12", Q(0), Q(0), 0) >>
        /\ connections = << >>
        /\ last'.op = "attach" /\ last'.a = "stable_12x12"
        /\ last'.b = "a1" /\ last'.c = "E" )
      => ( /\ Len(units') = 2
           /\ Len(connections') = 1
           /\ units'[1] = units[1]
           /\ units'[2].moduleId = "stable_12x12"
           /\ {EndA(connections'[1]), EndB(connections'[1])}
                = {<<"a1", "E">>, <<units'[2].uid, "W">>}
           /\ WorldOf(units'[2], "W") = WorldOf(units'[1], "E")
           /\ ~ overlaps(BoxOf(units'[1]), BoxOf(units'[2])) ) ]_vars

\* C6: whenever attach, reconnect, placeFree, rotateUnit or deleteUnit fails,
\* the units and the connections are what they were before the call
C6_FailureChangesNothing ==
  [][ ( /\ last'.op \in {"attach", "reconnect", "placeFree", "rotateUnit",
                         "deleteUnit"}
        /\ last'.status # "ok" )
      => ( units' = units /\ connections' = connections ) ]_vars

\* an operation has failed on a layout that holds units and connections to lose
C6_Witness ==
  /\ last.op \in {"attach", "reconnect", "placeFree", "rotateUnit", "deleteUnit"}
  /\ last.status # "ok"
  /\ Len(units) >= 2
  /\ Len(connections) >= 1

\* C7: rotateUnit on a unit that is an endpoint of two or more connections
\* fails with RotationLocked and leaves every unit and connection unchanged
C7_RotationLocked ==
  [][ ( /\ last'.op = "rotateUnit"
        /\ Cardinality(TouchingU(connections, selectedUid)) >= 2 )
      => ( /\ last'.status = "RotationLocked"
           /\ units' = units
           /\ connections' = connections ) ]_vars

\* rotateUnit has been refused on a unit with two connections
C7_Witness ==
  /\ last.op = "rotateUnit" /\ last.status = "RotationLocked"
  /\ Cardinality(TouchingU(connections, last.a)) >= 2

\* C8: rotateUnit on a unit with exactly one connection either leaves the
\* layout unchanged, or leaves the other units and the connections unchanged
\* and the unit's connected connector at its world position of before, which
\* is the world position of the other endpoint's connector
C8_SingleConnectionRotation ==
  [][ ( /\ last'.op = "rotateUnit"
        /\ Cardinality(TouchingU(connections, selectedUid)) = 1 )
      => \/ units' = units /\ connections' = connections
         \/ LET c      == connections[CHOOSE i \in TouchingU(connections, selectedUid) : TRUE]
                mine   == IF c.aUid = selectedUid THEN c.aConn ELSE c.bConn
                other  == IF c.aUid = selectedUid THEN EndB(c) ELSE EndA(c)
                i      == UnitIndex(units, selectedUid)
                o      == UnitIndex(units, other[1])
            IN  /\ connections' = connections
                /\ Len(units') = Len(units)
                /\ \A k \in 1..Len(units) : k # i => units'[k] = units[k]
                /\ units'[i].uid = selectedUid
                /\ WorldOf(units'[i], mine) = WorldOf(units[i], mine)
                /\ WorldOf(units'[i], mine) = WorldOf(units[o], other[2]) ]_vars

\* rotateUnit has been called on a unit with exactly one connection, whose
\* connector is at the other endpoint's world position
C8_Witness ==
  /\ last.op = "rotateUnit"
  /\ last.status \in {"ok", "Overlap"}
  /\ Cardinality(TouchingU(connections, last.a)) = 1
  /\ LET c == connections[CHOOSE i \in TouchingU(connections, last.a) : TRUE]
     IN  WorldOf(units[UnitIndex(units, c.aUid)], c.aConn)
           = WorldOf(units[UnitIndex(units, c.bUid)], c.bConn)

C10_DeleteRemovesExactly ==
  [][ ( last'.op = "deleteUnit" /\ last'.status = "ok" )
      => ( /\ units' = SelectSeq(units, LAMBDA x : x.uid # last'.a)
           /\ connections' =
                SelectSeq(connections,
                          LAMBDA c : c.aUid # last'.a /\ c.bUid # last'.a)
           /\ last'.a \in UnitIds(units) ) ]_vars

\* a connected unit has been deleted and a connection between two other units
\* is still there
C10_Witness ==
  /\ last.op = "deleteUnit" /\ last.status = "ok"
  /\ last.a \notin UnitIds(units)
  /\ Len(units) = 2
  /\ Len(connections) = 1

\* C11: the layout always contains at least one unit: no sequence of
\* operations, loading a template or a pre-built design included, reaches a
\* layout with zero units (that deleteUnit refuses to remove the only unit
\* is part of C6_FailureChangesNothing)
C11_AtLeastOneUnit == Len(units) >= 1

\* C13: applying rotateLayout four times in a row returns every unit to its
\* original x, y and rotation, and leaves the connections as they were: each
\* rotateLayout step keeps the connections, and three further applications
\* to its result give back the units it started from
C13_FourRotationsIdentity ==
  [][ last'.op = "rotateLayout"
      => ( /\ connections' = connections
           /\ Len(units') = Len(units)
           /\ rotateLayoutUnits(rotateLayoutUnits(rotateLayoutUnits(units')))
                = units ) ]_vars

\* rotateLayout has been called four times in a row on a layout of three or
\* more connected units
C13_Witness ==
  /\ last.op = "rotateLayout"
  /\ nLayoutRotations = 4 /\ layoutRotation = 0
  /\ Len(units) >= 3 /\ Len(connections) >= 2
  /\ \E l \in TurnLayouts : units = l.units /\ connections = l.connections

\* connection c of layout us joins two connectors that exist on their units'
\* modules and are at the same world position
Joined(us, c) ==
  /\ c.aUid \in UnitIds(us) /\ c.bUid \in UnitIds(us)
  /\ FindConnector(getModule(us[UnitIndex(us, c.aUid)].moduleId), c.aConn) # <<>>
  /\ FindConnector(getModule(us[UnitIndex(us, c.bUid)].moduleId), c.bConn) # <<>>
  /\ WorldOf(us[UnitIndex(us, c.aUid)], c.aConn)
       = WorldOf(us[UnitIndex(us, c.bUid)], c.bConn)

\* C14: rotateLayout leaves the connections unchanged, turns every unit's
\* rotation to (old rotation + 90) mod 360, and every connection whose two
\* connectors were at the same world position before still has them at the
\* same world position afterwards
C14_RotateLayoutKeepsAdjacency ==
  [][ last'.op = "rotateLayout"
      => ( /\ connections' = connections
           /\ Len(units') = Len(units)
           /\ \A i \in 1..Len(units) :
                /\ units'[i].rot = (units[i].rot + 90) % 360
                /\ units'[i].uid = units[i].uid
           /\ \A k \in 1..Len(connections) :
                Joined(units, connections[k])
                  => Joined(units', connections[k]) ) ]_vars

\* rotateLayout has turned three stable_12x12 units chained in a row, and
\* both connections still join connectors at the same world position
C14_Witness ==
  /\ last.op = "rotateLayout"
  /\ Len(units) = 3 /\ Len(connections) = 2
  /\ \A i \in 1..3 : units[i].moduleId = "stable_12x12" /\ units[i].rot = 270
  /\ \A k \in 1..2 : Joined(units, connections[k])

\* C16: in every reachable layout, each unit's rotation is a member of the
\* rotation list of the module it references (a unit whose module is not in
\* the catalog references none)
C16_RotationAllowed ==
  \A i \in 1..Len(units) :
    KnownModule(units[i].moduleId)
      => units[i].rot \in Range(getModule(units[i].moduleId).rotations)

\* rotateLayout has turned a unit from the last rotation of its module's list
\* to the first
C16_Witness ==
  /\ last.op = "rotateLayout"
  /\ layoutRotation = 180
  /\ \E i \in 1..Len(units) :
       /\ KnownModule(units[i].moduleId)
       /\ units[i].rot = getModule(units[i].moduleId).rotations[1]

\* what the kernel's case for rotation rot makes of extents, point and
\* direction i
KernelCase(i, rot) ==
  [w |-> rotatedSize(i.w, i.d, rot).w,
   d |-> rotatedSize(i.w, i.d, rot).d,
   x |-> rotatePoint(i.x, i.y, Q(i.w), Q(i.d), rot).x,
   y |-> rotatePoint(i.x, i.y, Q(i.w), Q(i.d), rot).y,
   nx |-> rotateVec(i.nx, i.ny, rot).nx,
   ny |-> rotateVec(i.nx, i.ny, rot).ny]

\* C17: k applications of the 90-degree case of rotatedSize, rotatePoint (on
\* the extents of the step before) and rotateVec give what the kernel's case
\* for rotation 90 * k gives, and four applications give back the original
\* extents, point and direction
C17_QuarterTurnOrderFour ==
  probe.fn = "turn"
    => /\ probe.now = KernelCase(probe.from, (90 * probe.k) % 360)
       /\ probe.k = 4 => probe.now = probe.from

\* four quarter turns of a point off the diagonal in a box that is not square
C17_Witness ==
  /\ probe.fn = "turn"
  /\ probe.k = 4
  /\ probe.from.w # probe.from.d
  /\ probe.from.x # probe.from.y
  /\ probe.now = probe.from

\* C18: overlaps(A, B) equals overlaps(B, A), and it is true exactly when the
\* boxes share a region of positive width and depth: boxes that only share
\* an edge or a corner do not overlap
C18_OverlapsSymmetricStrict ==
  (probe.fn = "overlaps" /\ probe.called)
    => /\ probe.ab = probe.ba
       /\ probe.ab <=>
            ( /\ RLt(Q(0), AxisOverlap(probe.a.x, probe.a.w, probe.b.x, probe.b.w))
              /\ RLt(Q(0), AxisOverlap(probe.a.y, probe.a.d, probe.b.y, probe.b.d)) )

\* overlaps has been called on two boxes that share part of an edge
C18_Witness ==
  /\ probe.fn = "overlaps" /\ probe.called
  /\ AxisOverlap(probe.a.x, probe.a.w, probe.b.x, probe.b.w) = Q(0)
  /\ RLt(Q(0), AxisOverlap(probe.a.y, probe.a.d, probe.b.y, probe.b.d))
  /\ ~ probe.ab /\ ~ probe.ba

C20_DragLeavesLayout ==
  [][ /\ last'.op \in {"buttonMouseDown", "unitMouseDown", "mouseMove",
                        "mouseLeave"}
         => units' = units /\ connections' = connections
      /\ (~NoDrag /\ (units' # units \/ connections' # connections))
         => last'.op \in {"attach", "placeFree", "reconnect", "moveFree"} ]_vars

\* a pointer move during the drag of a placed unit has found a connector to
\* preview, in a layout of connected units
C20_Witness ==
  /\ last.op = "mouseMove"
  /\ draggingUnitUid # ""
  /\ snappedConnector # << >>
  /\ dragPosition # << >>
  /\ Len(connections) >= 1

\* the sum of the numbers of sequence s
RECURSIVE SumSeq(_)
SumSeq(s) == IF s = << >> THEN 0 ELSE Head(s) + SumSeq(Tail(s))

\* the price the claim gives: the saved price for the id when there is one,
\* else the catalog's
PriceOfModule(u, pricing) ==
  IF pricing # << >> /\ u.moduleId \in DOMAIN pricing[1].modules
  THEN pricing[1].modules[u.moduleId]
  ELSE getModule(u.moduleId).basePrice

PriceOfExtra(u, e, pricing) ==
  IF pricing # << >> /\ e \in DOMAIN pricing[1].extras
  THEN pricing[1].extras[e]
  ELSE LET xs == getModule(u.moduleId).extras
       IN  xs[CHOOSE j \in 1..Len(xs) : xs[j].id = e].price

\* C21: totalCost is the sum over the units of the module's price (the saved
\* price for the module id when there is one, else the catalog base price)
\* plus, for each selected extra, the extra's price (the saved price for the
\* extra id when there is one, else its price in the unit's module)
C21_TotalCostIsSum ==
  (probe.fn = "totalCost" /\ probe.called)
    => probe.cost =
         SumSeq([i \in 1..Len(probe.units) |->
                   PriceOfModule(probe.units[i], probe.pricing)
                     + SumSeq([k \in 1..Len(probe.units[i].selectedExtras) |->
                                 PriceOfExtra(probe.units[i],
                                              probe.units[i].selectedExtras[k],
                                              probe.pricing)])])

\* the cost of two units has been computed with a saved price for one module
\* and for one of two selected extras
C21_Witness ==
  /\ probe.fn = "totalCost" /\ probe.called
  /\ Len(probe.units) = 2
  /\ probe.pricing # << >>
  /\ probe.units[1].moduleId \in DOMAIN probe.pricing[1].modules
  /\ probe.units[2].moduleId \notin DOMAIN probe.pricing[1].modules
  /\ Len(probe.units[2].selectedExtras) = 2
  /\ probe.units[2].selectedExtras[1] \in DOMAIN probe.pricing[1].extras
  /\ probe.units[2].selectedExtras[2] \notin DOMAIN probe.pricing[1].extras

\* the box of the candidate of a call of isValidPosition
CandidateBox ==
  bbox(TempUnit(probe.arg.moduleId, probe.arg.x, probe.arg.y, probe.arg.rot),
       getModule(probe.arg.moduleId))

\* the units a call of isValidPosition compares the candidate with
ComparedUnits ==
  { i \in 1..Len(probe.arg.units) :
      probe.arg.excludeUid = "" \/ probe.arg.units[i].uid # probe.arg.excludeUid }

\* C22: isValidPosition rejects a candidate exactly when its box overlaps the
\* box of some other unit by more than 0.5 ft on both axes; the unit named by
\* excludeUid is not compared
C22_RejectsOnlyBeyondTolerance ==
  (probe.fn = "isValidPosition" /\ probe.called)
    => (probe.valid <=>
          \A i \in ComparedUnits :
            ~ OverlapBeyond(CandidateBox, BoxOf(probe.arg.units[i]), TOLERANCE))

\* what the code does instead: a candidate is rejected exactly when its box
\* and the box of a compared unit share interior area, however little
C22_RejectsAnyInteriorOverlap ==
  (probe.fn = "isValidPosition" /\ probe.called)
    => (probe.valid <=>
          \A i \in ComparedUnits :
            ~ ( /\ RLt(Q(0), AxisOverlap(CandidateBox.x, CandidateBox.w,
                                         BoxOf(probe.arg.units[i]).x,
                                         BoxOf(probe.arg.units[i]).w))
                /\ RLt(Q(0), AxisOverlap(CandidateBox.y, CandidateBox.d,
                                         BoxOf(probe.arg.units[i]).y,
                                         BoxOf(probe.arg.units[i]).d)) ))

\* a candidate that overlaps the unit at the origin by 1/4 ft in x was rejected
C22_Witness ==
  /\ probe.fn = "isValidPosition" /\ probe.called
  /\ probe.arg.x = Norm(-47, 4) /\ probe.arg.y = Q(0)
  /\ probe.arg.moduleId = "stable_12x12"
  /\ probe.arg.excludeUid = "a2"
  /\ ~ probe.valid

\* C23: in a call of connectExistingUnit that reaches the candidate search
\* (both units exist, the target connector is free), every connector of the
\* moving unit is eligible, also one that joins it to a third unit
C23_JoinedConnectorStillEligible ==
  [][ ( /\ last'.op = "reconnect"
        /\ FindUnit(units, last'.a) # << >>
        /\ FindUnit(units, last'.b) # << >>
        /\ ~ isUsed(connections, last'.b, last'.c) )
      => \A k \in 1..Len(getModule(FindUnit(units, last'.a)[1].moduleId).connectors) :
           ~ connectorBlocked(connections, last'.a,
                              getModule(FindUnit(units, last'.a)[1].moduleId)
                                .connectors[k].id,
                              last'.b) ]_vars

\* the placement renderDragPreview draws before it is replaced by a snapped
\* match: <<>> when nothing is drawn, else <<[m, x, y, rot]>>
previewAtPointer ==
  IF (draggingModuleId = "" /\ draggingUnitUid = "") \/ dragPosition = << >>
  THEN << >>
  ELSE IF draggingModuleId # ""
  THEN << [m |-> getModule(draggingModuleId),
           x |-> IF snappedConnector = << >>
                 THEN RSub(dragPosition[1].x,
                           RDivInt(Q(getModule(draggingModuleId).widthFt), 2))
                 ELSE dragPosition[1].x,
           y |-> IF snappedConnector = << >>
                 THEN RSub(dragPosition[1].y,
                           RDivInt(Q(getModule(draggingModuleId).depthFt), 2))
                 ELSE dragPosition[1].y,
           rot |-> 0] >>
  ELSE IF draggingUnitUid # "" /\ dragOffset # << >>
          /\ FindUnit(units, draggingUnitUid) # << >>
  THEN << [m |-> getModule(FindUnit(units, draggingUnitUid)[1].moduleId),
           x |-> RSub(dragPosition[1].x, dragOffset[1].x),
           y |-> RSub(dragPosition[1].y, dragOffset[1].y),
           rot |-> FindUnit(units, draggingUnitUid)[1].rot] >>
  ELSE << >>

\* the search of renderDragPreview while snapped: every unused connector of
\* the snapped unit against every rotation and connector of the dragged module
previewSearch(m) ==
  IF snappedConnector = << >> \/ FindUnit(units, snappedConnector[1].uid) = << >>
  THEN << >>
  ELSE AttachSearch(units, connections,
                    FindUnit(units, snappedConnector[1].uid)[1], m)

\* renderDragPreview: origin and rotation of the drawn placement, << >> when
\* nothing is drawn
renderDragPreview ==
  IF previewAtPointer = << >> THEN << >>
  ELSE IF previewSearch(previewAtPointer[1].m) # << >>
  THEN << [x |-> previewSearch(previewAtPointer[1].m)[1].x,
           y |-> previewSearch(previewAtPointer[1].m)[1].y,
           rot |-> previewSearch(previewAtPointer[1].m)[1].rot] >>
  ELSE << [x |-> previewAtPointer[1].x, y |-> previewAtPointer[1].y,
           rot |-> previewAtPointer[1].rot] >>

\* the step placed the dragged module or unit where the preview drew it
PreviewCommitted ==
  /\ renderDragPreview # << >>
  /\ last'.status = "ok"
  /\ IF draggingModuleId # ""
     THEN /\ last'.op = "attach"
          /\ Len(units') = Len(units) + 1
          /\ units'[Len(units')].xFt = renderDragPreview[1].x
          /\ units'[Len(units')].yFt = renderDragPreview[1].y
          /\ units'[Len(units')].rot = renderDragPreview[1].rot
     ELSE /\ last'.op = "reconnect"
          /\ FindUnit(units', draggingUnitUid) # << >>
          /\ FindUnit(units', draggingUnitUid)[1].xFt = renderDragPreview[1].x
          /\ FindUnit(units', draggingUnitUid)[1].yFt = renderDragPreview[1].y
          /\ FindUnit(units', draggingUnitUid)[1].rot = renderDragPreview[1].rot

\* C26: while a drag is snapped to a connector, a pointer-up at the pointer
\* position of the preview commits the previewed origin and rotation (attach
\* for a new module, reconnect for an existing unit)
C26_PreviewIsCommit ==
  [][ \A p \in Pointer :
        ( /\ snappedConnector # << >>
          /\ dragPosition = << p >>
          /\ (HandleMouseUp(p) \/ HandleDocumentMouseUp(p)) )
        => PreviewCommitted ]_vars

\* the one connection of the selected unit
OnlyConnection ==
  connections[CHOOSE i \in TouchingU(connections, selectedUid) : TRUE]

\* the selected unit turned to the next rotation of its module's list, with
\* its origin solved so that its connector of OnlyConnection stays on the
\* connector of the unit it is joined to
TurnedAboutConnector ==
  LET i     == UnitIndex(units, selectedUid)
      m     == getModule(units[i].moduleId)
      c     == OnlyConnection
      mine  == IF c.aUid = selectedUid THEN c.aConn ELSE c.bConn
      other == IF c.aUid = selectedUid THEN EndB(c) ELSE EndA(c)
      w     == WorldOf(units[UnitIndex(units, other[1])], other[2])
      next  == nextRotation(m.rotations, units[i].rot)
      def   == FindConnector(m, mine)[1]
      local == rotatePoint(Q(def.x), Q(def.y), Q(m.widthFt), Q(m.depthFt), next)
  IN  [units[i] EXCEPT !.rot = next,
                       !.xFt = RSub(w[1], local.x),
                       !.yFt = RSub(w[2], local.y)]

\* C27: a unit with exactly one connection can be rotated: rotateUnit on a
\* unit joined to one other unit, when the turned box is clear of every unit
\* other than the one it is joined to, succeeds, advancing the rotation and
\* re-solving the origin while keeping the connection
C27_SinglyConnectedCanRotate ==
  [][ ( /\ last'.op = "rotateUnit"
        /\ Cardinality(TouchingU(connections, selectedUid)) = 1
        /\ Joined(units, OnlyConnection)
        /\ \A j \in 1..Len(units) :
             ( /\ units[j].uid # OnlyConnection.aUid
               /\ units[j].uid # OnlyConnection.bUid
               /\ KnownModule(units[j].moduleId) )
             => ~ overlaps(BoxOf(TurnedAboutConnector), BoxOf(units[j])) )
      => ( /\ last'.status = "ok"
           /\ connections' = connections
           /\ units' = [units EXCEPT ![UnitIndex(units, selectedUid)] =
                                       TurnedAboutConnector]
           /\ Joined(units', OnlyConnection) ) ]_vars

\* no rotateUnit on a unit with exactly one connection has succeeded
NoSinglyConnectedRotation ==
  ~ ( /\ last.op = "rotateUnit" /\ last.status = "ok"
      /\ Cardinality(TouchingU(connections, last.a)) = 1 )

\* every connection of layout (us, cs) joins two connectors at one world
\* position
AllJoined(us, cs) == \A k \in 1..Len(cs) : Joined(us, cs[k])

\* C28: attach, placeFree, reconnect, the free-space move, rotateUnit,
\* rotateLayout and deleteUnit keep the two connectors of every connection at
\* the same world position: from a layout in which every connection joins two
\* connectors at one position they lead to such a layout (the initial layout,
\* having no connection, is one)
C28_ConnectorsStayTogether ==
  [][ ( /\ last'.op \in {"attach", "placeFree", "reconnect", "moveFree",
                         "rotateUnit", "rotateLayout", "deleteUnit"}
        /\ AllJoined(units, connections) )
      => AllJoined(units', connections') ]_vars

\* a unit of a chain of three has been moved to free space and the connection
\* between the two others still joins their connectors
C28_Witness ==
  /\ last.op = "moveFree" /\ last.status = "ok"
  /\ Len(units) = 3 /\ Len(connections) = 1
  /\ last.a \notin {connections[1].aUid, connections[1].bUid}
  /\ AllJoined(units, connections)
  /\ \E i \in 1..Len(units) :
       /\ units[i].uid = last.a
       /\ \A j \in 1..Len(units) :
            j # i => ~ RLt(Q(0), AxisOverlap(BoxOf(units[i]).x, BoxOf(units[i]).w,
                                            BoxOf(units[j]).x, BoxOf(units[j]).w))
                     \/ ~ RLt(Q(0), AxisOverlap(BoxOf(units[i]).y, BoxOf(units[i]).d,
                                               BoxOf(units[j]).y, BoxOf(units[j]).d))

\* C29: the current selection always refers to a unit of the layout:
\* selectedUid is the id of some unit in units
C29_SelectionExists == selectedUid \in UnitIds(units)

\* C30: loading a built-in template yields a layout in which every unit has
\* an id no unit had before and no other loaded unit has, every unit's module
\* id is in the catalog, both endpoints of every connection are loaded units,
\* and every connection's connector ids are connectors of its units' modules
C30_TemplateLayoutWellFormed ==
  [][ last'.op = "loadTemplate"
      => ( /\ \A i \in 1..Len(units') :
                /\ units'[i].uid \notin UnitIds(units)
                /\ \A j \in 1..Len(units') : units'[j].uid = units'[i].uid => j = i
                /\ KnownModule(units'[i].moduleId)
           /\ \A k \in 1..Len(connections') :
                /\ connections'[k].aUid \in UnitIds(units')
                /\ connections'[k].bUid \in UnitIds(units')
                /\ \A e \in {EndA(connections'[k]), EndB(connections'[k])} :
                     LET u == units'[UnitIndex(units', e[1])]
                     IN  KnownModule(u.moduleId)
                           /\ FindConnector(getModule(u.moduleId), e[2]) # << >> ) ]_vars

====
